---------------------------- MODULE Spec2Model ----------------------------
(***************************************************************************)
(* Model of the maps-address-completion-service: the World builder        *)
(* (compress.rs, sorted_vec.rs) and the query handlers (api.rs).           *)
(*                                                                         *)
(* Strings are sequences of Unicode scalar values (naturals), so that      *)
(* byte-wise ordering (String: Ord), to_lowercase, starts_with and the     *)
(* integer parser / formatter are computed rather than assumed.            *)
(* Option<T> is a sequence of length 0 (None) or 1 (Some).                 *)
(* Vec indices are kept 0-based as in the source; a TLA+ sequence holding  *)
(* a Vec is read at position i + 1.                                        *)
(***************************************************************************)
EXTENDS Integers, Sequences, FiniteSets, TLC

VARIABLES
    pc,                            \* position of the batch / serve process
    addresses,                     \* read_and_compress: Vec<Address>
    streets,                       \* read_and_compress: HashSet<String>
    uncompressable_house_numbers,  \* read_and_compress: HashSet<String>
    world,                         \* World {unique_streets, housenumbers, countries}
    compress_i,                    \* compress: its counter i of addresses inserted
    fed,                           \* history: the set of records pushed to addresses
    request,                       \* the request a handler last served
    response,                      \* and the response it returned
    text,                          \* iter_items: the line it last read, as parsed JSON
    file,                          \* parse: the entities of the input file, in file order
    xpc,                           \* parse: position of process_osm_pdf_to_stdout
    xpos,                          \* parse: the entity par_iter() yields next (1-based)
    node_ids_required_by_ways,     \* pass_one: HashSet<i64>
    node_coordinates,              \* pass_two: HashMap<i64, (i32, i32)>
    out,                           \* parse: the records written to stdout
    error,                         \* parse: the Err(String) a pass returned
    incomplete_addresses,          \* try_autofixing: Vec<IncompleteAddress>, a stack
    fixed,                         \* try_autofixing: Vec<Address>
    unfixable,                     \* try_autofixing: Vec<IncompleteAddress>
    popped,                        \* try_autofixing: the record the loop last popped
    input,                         \* history: the list try_autofixing was called with
    requeues,                      \* history: how often the record on top was pushed back
    afpc,                          \* try_autofixing: position
    exit_status,                   \* main: the exit status of the process, once it ended
    rpc,                           \* which reader wraps the file, or "off"
    overflow_checks,               \* the build: whether integer overflow panics
    inner,                         \* the wrapped reader: file length and offset
    filesize,                      \* VerboseReader.filesize
    position_fast,                 \* VerboseReader.position_fast
    update_count,                  \* VerboseReader.update_count
    position_slow,                 \* Arc<Mutex<usize>> shared with the manager
    seek_count,                    \* Arc<Mutex<usize>> shared with the manager
    count_fast,                    \* CountingReader.count_fast
    count_count,                   \* CountingReader.count_count
    count_slow,                    \* CountingReader.count_slow
    bytes_read,                    \* history: the bytes all reads have returned
    seeks,                         \* history: the number of seek calls
    sought,                        \* history: the seek that was the last call, if any
    output_thread,                 \* Arc<Mutex<Option<(JoinHandle<()>, Sender<()>)>>>: its value
    mutex,                         \* the Mutex of output_thread: who holds its guard
    guard_scope,                   \* the build: where stop_printing's guard is dropped
    callers,                       \* the threads calling a manager clone: position and locals
    threads,                       \* the printing threads spawned, each with its channel
    calls,                         \* history: the number of calls made
    stopped,                       \* history: the threads a returned stop_printing had taken
    last_returned,                 \* history: the call that returned last
    tasks                          \* serve: the handler tasks in flight, each with its locals

compress_vars == <<pc, addresses, streets, uncompressable_house_numbers, world,
                   compress_i, fed, request, response, text>>
extract_vars == <<file, xpc, xpos, node_ids_required_by_ways, node_coordinates, out, error>>
autofix_vars == <<incomplete_addresses, fixed, unfixable, popped, input, requeues,
                  afpc>>

reader_vars == <<rpc, overflow_checks, inner, filesize, position_fast, update_count,
                 position_slow, seek_count, count_fast, count_count, count_slow,
                 bytes_read, seeks, sought>>
printer_vars == <<output_thread, mutex, guard_scope, callers, threads, calls, stopped,
                  last_returned>>
handler_vars == <<tasks>>
other_vars == <<reader_vars, printer_vars, handler_vars>>

vars == <<compress_vars, extract_vars, autofix_vars, exit_status, other_vars>>

(***************************************************************************)
(* Bounds of the model.                                                    *)
(***************************************************************************)
MaxRecords == 3
MaxEntities == 3
MaxIncomplete == 2
MaxPairs == 3
MaxFileSize == 2     \* the length of the file a reader wraps, in bytes
MaxBuf == 2          \* the length of the buffer a read is given
MaxSeeks == 2        \* the seek calls of one run
MaxSeekOffset == 2   \* the largest offset a seek is given
MaxCallers == 2      \* the threads that hold a clone of the manager
MaxCalls == 3        \* the calls of start_printing and stop_printing of one run
MaxLines == 1        \* the progress lines one printing thread logs
MaxHandlers == 2     \* the requests the server handles at the same time

(***************************************************************************)
(* Option and small helpers.                                               *)
(***************************************************************************)
None == <<>>
Some(x) == <<x>>
IsSome(o) == Len(o) = 1
Unwrap(o) == o[1]

Range(s) == {s[i] : i \in DOMAIN s}
Min(a, b) == IF a <= b THEN a ELSE b

(***************************************************************************)
(* Strings used as inputs, spelled as code points.                         *)
(***************************************************************************)
s_empty == <<>>
s_DE == <<68, 69>>                            \* "DE"
s_de == <<100, 101>>                          \* "de"
s_AT == <<65, 84>>                            \* "AT"
s_IN == <<73, 78>>                            \* "IN"
s_XX == <<88, 88>>                            \* "XX"
s_Germany == <<71, 101, 114, 109, 97, 110, 121>>   \* "Germany"
s_Austria == <<65, 117, 115, 116, 114, 105, 97>>   \* "Austria"
s_India == <<73, 110, 100, 105, 97>>          \* "India"
s_Oesterreich == <<214, 115, 116, 101, 114, 114, 101, 105, 99, 104>>  \* "Österreich"
s_Berlin == <<66, 101, 114, 108, 105, 110>>   \* "Berlin"
s_berlin == <<98, 101, 114, 108, 105, 110>>   \* "berlin"
s_BERLIN == <<66, 69, 82, 76, 73, 78>>        \* "BERLIN"
s_Bonn == <<66, 111, 110, 110>>               \* "Bonn"
s_Nowhere == <<78, 111, 119, 104, 101, 114, 101>>  \* "Nowhere"
s_10115 == <<49, 48, 49, 49, 53>>             \* "10115"
s_53111 == <<53, 51, 49, 49, 49>>             \* "53111"
s_00000 == <<48, 48, 48, 48, 48>>             \* "00000"
s_Bach == <<66, 97, 99, 104>>                 \* "Bach"
s_bach == <<98, 97, 99, 104>>                 \* "bach"
s_BACH == <<66, 65, 67, 72>>                  \* "BACH"
s_Abbey == <<65, 98, 98, 101, 121>>           \* "Abbey"
s_Nope == <<78, 111, 112, 101>>               \* "Nope"
s_0 == <<48>>                                 \* "0"
s_1 == <<49>>                                 \* "1"
s_10 == <<49, 48>>                            \* "10"
s_2 == <<50>>                                 \* "2"
s_01 == <<48, 49>>                            \* "01"
s_12a == <<49, 50, 97>>                       \* "12a"
s_65535 == <<54, 53, 53, 51, 53>>             \* "65535"
s_65536 == <<54, 53, 53, 51, 54>>             \* "65536"
s_plus5 == <<43, 53>>                         \* "+5"
s_minus1 == <<45, 49>>                        \* "-1"
s_B == <<66>>                                 \* "B"
s_x == <<120>>                                \* "x"

(***************************************************************************)
(* std: String ordering, lower-casing, prefix test, integer parse/format.  *)
(***************************************************************************)
\* char::to_lowercase on the scalar values the model uses (ASCII and Latin-1).
char_to_lowercase(c) ==
    IF (65 <= c /\ c <= 90) \/ (192 <= c /\ c <= 222 /\ c # 215) THEN c + 32 ELSE c

\* str::to_lowercase
to_lowercase(s) == [i \in DOMAIN s |-> char_to_lowercase(s[i])]

\* str::starts_with(&prefix)
starts_with(s, prefix) ==
    /\ Len(prefix) <= Len(s)
    /\ \A i \in 1..Len(prefix) : s[i] = prefix[i]

\* <String as Ord>::cmp, "less than": lexicographic on the code units.
str_lt(a, b) ==
    \E k \in 1..(Len(b)) :
        /\ \A i \in 1..(k - 1) : i <= Len(a) /\ a[i] = b[i]
        /\ ((k - 1 = Len(a)) \/ (k <= Len(a) /\ a[k] < b[k]))

\* u16::MAX
U16_MAX == 65535

\* usize::MAX. take(m) only compares m with the number of items yielded, and the
\* header strings of the model are far shorter than its decimal rendering, so
\* the largest integer of the checker stands for it.
USIZE_MAX == 2147483647

\* <uN as FromStr>::from_str: an optional leading '+', then one or more ASCII
\* digits, the value at most max. Ok(n) is Some(n), every Err is None.
RECURSIVE parse_digits(_, _, _)
parse_digits(s, acc, max) ==
    IF s = <<>> THEN Some(acc)
    ELSE IF s[1] < 48 \/ s[1] > 57 THEN None
    ELSE LET d == s[1] - 48 IN
         IF acc > (max - d) \div 10 THEN None
         ELSE parse_digits(Tail(s), acc * 10 + d, max)

parse_unsigned(s, max) ==
    IF s = <<>> THEN None
    ELSE LET digits == IF s[1] = 43 THEN Tail(s) ELSE s IN
         IF digits = <<>> THEN None ELSE parse_digits(digits, 0, max)

\* <uN as ToString>::to_string
RECURSIVE to_string(_)
to_string(n) ==
    IF n < 10 THEN <<48 + n>> ELSE Append(to_string(n \div 10), 48 + (n % 10))

\* Iterator::find as a position: the first index (1-based) whose element
\* satisfies P, 0 when there is none.
FindFirst(seq, P(_)) ==
    IF \E i \in DOMAIN seq : P(seq[i])
    THEN CHOOSE i \in DOMAIN seq : P(seq[i]) /\ \A j \in 1..(i - 1) : ~P(seq[j])
    ELSE 0

\* Iterator::filter
RECURSIVE FilterIdx(_, _)
FilterIdx(seq, keep) ==
    IF seq = <<>> THEN <<>>
    ELSE IF Len(seq) \in keep
         THEN Append(FilterIdx(SubSeq(seq, 1, Len(seq) - 1), keep), seq[Len(seq)])
         ELSE FilterIdx(SubSeq(seq, 1, Len(seq) - 1), keep)

\* Iterator::take
Take(seq, m) == SubSeq(seq, 1, Min(m, Len(seq)))

\* slice::sort_by / slice::sort: a stable sort by a total order.
StableSortBy(s, Less(_, _)) ==
    LET pos(i) == 1 + Cardinality({j \in DOMAIN s :
                        Less(s[j], s[i]) \/ (~Less(s[i], s[j]) /\ j < i)})
    IN [k \in 1..Len(s) |-> s[CHOOSE i \in DOMAIN s : pos(i) = k]]

(***************************************************************************)
(* sorted_vec.rs                                                           *)
(***************************************************************************)
\* Mutant: the conversion keeps the Vec as collected, without value.sort().
SortedVec_from_unsorted(value) == value

\* impl From<Vec<T>> for SortedVec<T>: value.sort()
SortedVec_from(value) == StableSortBy(value, str_lt)

\* slice::binary_search over [left, right) (0-based), as SortedVec::index_of
\* calls it: Some(index) for Ok(index), None for Err(_).
RECURSIVE binary_search(_, _, _, _)
binary_search(sv, e, left, right) ==
    IF left >= right THEN None
    ELSE LET mid == left + ((right - left) \div 2)
             x == sv[mid + 1]
         IN IF str_lt(x, e) THEN binary_search(sv, e, mid + 1, right)
            ELSE IF str_lt(e, x) THEN binary_search(sv, e, left, mid)
            ELSE Some(mid)

\* SortedVec::index_of
index_of(sv, e) == binary_search(sv, e, 0, Len(sv))

(***************************************************************************)
(* compress.rs: reading and normalising the input lines.                   *)
(***************************************************************************)
\* codes_iso_3166::part_1::ALL_CODES, an excerpt: code, short_name,
\* local_short_name.
ALL_CODES ==
    << [code |-> s_AT, short_name |-> s_Austria,
        local_short_name |-> Some(s_Oesterreich)],
       [code |-> s_DE, short_name |-> s_Germany, local_short_name |-> None],
       [code |-> s_IN, short_name |-> s_India, local_short_name |-> None] >>

\* CountryCode::from_str(c).is_ok()
CountryCode_from_str_ok(c) == \E i \in DOMAIN ALL_CODES : ALL_CODES[i].code = c

\* Mutant: only the English short names are looked up.
autocorrect_country_code_english_only(c) ==
    IF CountryCode_from_str_ok(c) THEN c
    ELSE LET hit == FindFirst(ALL_CODES, LAMBDA code : code.short_name = c)
         IN IF hit # 0 THEN ALL_CODES[hit].code ELSE c

\* autocorrect_country_code
autocorrect_country_code(c) ==
    IF CountryCode_from_str_ok(c) THEN c
    ELSE LET hit == FindFirst(ALL_CODES,
                        LAMBDA code : \/ code.short_name = c
                                      \/ code.local_short_name = Some(c))
         IN IF hit # 0 THEN ALL_CODES[hit].code ELSE c

\* normalize_address
normalize_address(a) ==
    [country |-> autocorrect_country_code(a.country), city |-> a.city,
     postcode |-> a.postcode, street |-> a.street, housenumber |-> a.housenumber]

\* iter_items, one line: serde_json::from_str::<Address> needs all five string
\* fields; Ok(addr) is Some(normalize_address(addr)), Err(_) is None.
iter_items(line) ==
    IF /\ IsSome(line.country) /\ IsSome(line.city) /\ IsSome(line.postcode)
       /\ IsSome(line.street) /\ IsSome(line.housenumber)
    THEN Some(normalize_address(
             [country |-> Unwrap(line.country), city |-> Unwrap(line.city),
              postcode |-> Unwrap(line.postcode), street |-> Unwrap(line.street),
              housenumber |-> Unwrap(line.housenumber)]))
    ELSE None

\* Mutant: any string that parses as u16 counts, without the comparison with
\* its rendering.
num_compressable_parse_only(a) == IsSome(parse_unsigned(a, U16_MAX))

\* num_compressable
num_compressable(a) ==
    LET r == parse_unsigned(a, U16_MAX)
    IN IF r = None THEN FALSE ELSE a = to_string(Unwrap(r))

(***************************************************************************)
(* compress.rs: the World and its containers.                              *)
(***************************************************************************)
\* enum Housenumber
CleanInt(n) == [tag |-> "CleanInt", v |-> n]
Index(i) == [tag |-> "Index", v |-> i]

Street_new(index) == [index |-> index, housenumbers |-> <<>>]
PostalArea_new(code) == [code |-> code, streets |-> <<>>]
City_new(name) == [name |-> name, areas |-> <<>>]
Country_new(code) == [code |-> code, cities |-> <<>>]
World_new(unique_streets, housenumbers) ==
    [unique_streets |-> unique_streets, housenumbers |-> housenumbers,
     countries |-> <<>>]

\* Mutant: push without the contains() test.
Street_insert_housenumber_push(st, hn) ==
    [st EXCEPT !.housenumbers = Append(@, hn)]

\* Street::insert_housenumber
Street_insert_housenumber(st, hn) ==
    IF hn \in Range(st.housenumbers) THEN st
    ELSE [st EXCEPT !.housenumbers = Append(@, hn)]

\* Mutant: a new Street is pushed without looking for an existing one.
PostalArea_insert_address_new_street(pa, street_index, hn) ==
    [pa EXCEPT !.streets =
        Append(@, Street_insert_housenumber(Street_new(street_index), hn))]

\* PostalArea::insert_address
PostalArea_insert_address(pa, street_index, hn) ==
    LET i == FindFirst(pa.streets, LAMBDA e : e.index = street_index)
    IN IF i # 0
       THEN [pa EXCEPT !.streets[i] = Street_insert_housenumber(@, hn)]
       ELSE [pa EXCEPT !.streets =
                Append(@, Street_insert_housenumber(Street_new(street_index), hn))]

\* City::insert_address
City_insert_address(ci, postal_code, street_index, hn) ==
    LET i == FindFirst(ci.areas, LAMBDA e : e.code = postal_code)
    IN IF i # 0
       THEN [ci EXCEPT !.areas[i] = PostalArea_insert_address(@, street_index, hn)]
       ELSE [ci EXCEPT !.areas =
                Append(@, PostalArea_insert_address(PostalArea_new(postal_code),
                                                    street_index, hn))]

\* Country::insert_address
Country_insert_address(co, city, postal_code, street_index, hn) ==
    LET i == FindFirst(co.cities, LAMBDA e : e.name = city)
    IN IF i # 0
       THEN [co EXCEPT !.cities[i] =
                City_insert_address(@, postal_code, street_index, hn)]
       ELSE [co EXCEPT !.cities =
                Append(@, City_insert_address(City_new(city), postal_code,
                                              street_index, hn))]

\* World::insert_address, lines 263-271: the classification of the house
\* number. None is the panic of expect().
classify_housenumber(w, housenumber) ==
    IF num_compressable(housenumber)
    THEN Some(CleanInt(Unwrap(parse_unsigned(housenumber, U16_MAX))))
    ELSE LET i == index_of(w.housenumbers, housenumber)
         IN IF i = None THEN None ELSE Some(Index(Unwrap(i)))

\* World::insert_address. The result is Some(world), or None when one of the
\* two expect() calls panics.
World_insert_address(w, country_code, city_name, zip, street, housenumber) ==
    LET hn == classify_housenumber(w, housenumber)
        street_index == index_of(w.unique_streets, street)
    IN IF hn = None \/ street_index = None THEN None
       ELSE LET i == FindFirst(w.countries, LAMBDA e : e.code = country_code)
            IN Some(IF i # 0
                    THEN [w EXCEPT !.countries[i] =
                             Country_insert_address(@, city_name, zip,
                                 Unwrap(street_index), Unwrap(hn))]
                    ELSE [w EXCEPT !.countries =
                             Append(@, Country_insert_address(
                                 Country_new(country_code), city_name, zip,
                                 Unwrap(street_index), Unwrap(hn)))])

\* The closure World::sort hands down (lines 289-307), one side of it: the
\* string a house number is compared by. None is the panic of expect().
hn_sort_key(w, hn) ==
    IF hn.tag = "CleanInt" THEN Some(to_string(hn.v))
    ELSE IF hn.v < Len(w.housenumbers) THEN Some(w.housenumbers[hn.v + 1])
    ELSE None

\* Mutant: two CleanInt are compared as numbers.
hn_sort_numeric(w, hn_a, hn_b) ==
    IF hn_a.tag = "CleanInt" /\ hn_b.tag = "CleanInt" THEN hn_a.v < hn_b.v
    ELSE str_lt(Unwrap(hn_sort_key(w, hn_a)), Unwrap(hn_sort_key(w, hn_b)))

\* The closure's a.cmp(&b) = Less.
hn_sort(w, hn_a, hn_b) ==
    str_lt(Unwrap(hn_sort_key(w, hn_a)), Unwrap(hn_sort_key(w, hn_b)))

\* Street::sort_with
Street_sort_with(st, w) ==
    [st EXCEPT !.housenumbers =
        StableSortBy(@, LAMBDA a, b : hn_sort(w, a, b))]

\* PostalArea::sort_with
PostalArea_sort_with(pa, w) ==
    LET sorted == StableSortBy(pa.streets, LAMBDA a, b : a.index < b.index)
    IN [pa EXCEPT !.streets =
           [i \in DOMAIN sorted |-> Street_sort_with(sorted[i], w)]]

\* City::sort_with
City_sort_with(ci, w) ==
    LET sorted == StableSortBy(ci.areas, LAMBDA a, b : str_lt(a.code, b.code))
    IN [ci EXCEPT !.areas =
           [i \in DOMAIN sorted |-> PostalArea_sort_with(sorted[i], w)]]

\* Mutant: cities are compared by their lowercased names, so names that
\* differ only in case keep their insertion order.
Country_sort_with_lowercase(co, w) ==
    LET sorted == StableSortBy(co.cities,
                     LAMBDA a, b : str_lt(to_lowercase(a.name), to_lowercase(b.name)))
    IN [co EXCEPT !.cities =
           [i \in DOMAIN sorted |-> City_sort_with(sorted[i], w)]]

\* Country::sort_with
Country_sort_with(co, w) ==
    LET sorted == StableSortBy(co.cities, LAMBDA a, b : str_lt(a.name, b.name))
    IN [co EXCEPT !.cities =
           [i \in DOMAIN sorted |-> City_sort_with(sorted[i], w)]]

\* Every Street of the world, as a set.
AllStreets(w) ==
    UNION {UNION {UNION {Range(pa.streets) : pa \in Range(ci.areas)}
                  : ci \in Range(co.cities)} : co \in Range(w.countries)}

\* World::sort. sort_by calls the closure on every element of a slice of two
\* or more, so the sort panics (None) exactly when such a street holds an
\* Index beyond the table.
World_sort(w) ==
    IF \E st \in AllStreets(w) :
          /\ Len(st.housenumbers) >= 2
          /\ \E hn \in Range(st.housenumbers) : hn_sort_key(w, hn) = None
    THEN None
    ELSE LET sorted == StableSortBy(w.countries,
                                    LAMBDA a, b : str_lt(a.code, b.code))
         IN Some([w EXCEPT !.countries =
                     [i \in DOMAIN sorted |-> Country_sort_with(sorted[i], w)]])

(***************************************************************************)
(* compress.rs: the lookups and prefix iterators the handlers use.         *)
(* A lookup returns Some(container) or None.                               *)
(***************************************************************************)
\* World::get_country
get_country(w, country_code) ==
    LET i == FindFirst(w.countries,
                 LAMBDA c : to_lowercase(c.code) = to_lowercase(country_code))
    IN IF i = 0 THEN None ELSE Some(w.countries[i])

\* Mutant: the city name is compared as spelled, without lowercasing.
get_city_exact(co, city_name) ==
    LET i == FindFirst(co.cities, LAMBDA c : c.name = city_name)
    IN IF i = 0 THEN None ELSE Some(co.cities[i])

\* Country::get_city
get_city(co, city_name) ==
    LET i == FindFirst(co.cities,
                 LAMBDA c : to_lowercase(c.name) = to_lowercase(city_name))
    IN IF i = 0 THEN None ELSE Some(co.cities[i])

\* City::get_postal_area
get_postal_area(ci, zip) ==
    LET i == FindFirst(ci.areas,
                 LAMBDA c : to_lowercase(c.code) = to_lowercase(zip))
    IN IF i = 0 THEN None ELSE Some(ci.areas[i])

\* PostalArea::get_street: find() reads world.unique_streets[s.index] of each
\* street up to the first match.
get_street(pa, street, w) ==
    LET hit(s) == /\ s.index < Len(w.unique_streets)
                  /\ to_lowercase(w.unique_streets[s.index + 1]) = to_lowercase(street)
        i == FindFirst(pa.streets, hit)
    IN IF i = 0 THEN None ELSE Some(pa.streets[i])

\* Whether that find() panics: a street it reads has its index beyond the table.
get_street_panics(pa, street, w) ==
    LET hit(s) == /\ s.index < Len(w.unique_streets)
                  /\ to_lowercase(w.unique_streets[s.index + 1]) = to_lowercase(street)
        i == FindFirst(pa.streets, hit)
        seen == IF i = 0 THEN pa.streets ELSE SubSeq(pa.streets, 1, i)
    IN \E s \in Range(seen) : s.index >= Len(w.unique_streets)

\* Mutant: take(m) before the filter.
filter_take_first(items, prefix, m) ==
    LET head == Take(items, m)
    IN [panic |-> \E k \in DOMAIN head : head[k] = None,
        items |-> FilterIdx([k \in DOMAIN head |-> head[k][1]],
                     {k \in DOMAIN head :
                         /\ head[k] # None
                         /\ starts_with(to_lowercase(head[k][1]),
                                        to_lowercase(prefix))})]

\* A lazy `.filter(starts_with prefix).take(m).collect()` over rendered items,
\* each Some(string), or None where rendering it panics: items are rendered
\* only until m of them have been yielded. The result is the collected Vec and
\* whether a panic cut it short.
RECURSIVE filter_take(_, _, _)
filter_take(items, prefix, m) ==
    IF m = 0 \/ items = <<>> THEN [panic |-> FALSE, items |-> <<>>]
    ELSE IF items[1] = None THEN [panic |-> TRUE, items |-> <<>>]
    ELSE LET x == Unwrap(items[1])
             keep == starts_with(to_lowercase(x), to_lowercase(prefix))
             rest == filter_take(Tail(items), prefix, IF keep THEN m - 1 ELSE m)
         IN IF rest.panic THEN rest
            ELSE IF keep THEN [rest EXCEPT !.items = <<x>> \o @] ELSE rest

\* Street::housenumber_iter
housenumber_iter(st, w) ==
    [i \in DOMAIN st.housenumbers |->
        LET s == st.housenumbers[i]
        IN IF s.tag = "Index"
           THEN (IF s.v < Len(w.housenumbers)
                 THEN Some(w.housenumbers[s.v + 1]) ELSE None)
           ELSE Some(to_string(s.v))]

\* Street::iter_housenumbers_prefixed(..).take(m).collect()
iter_housenumbers_prefixed(st, prefix, w, m) ==
    filter_take(housenumber_iter(st, w), prefix, m)

\* PostalArea::iter_streets_prefixed(..).take(m).cloned().collect()
iter_streets_prefixed(pa, prefix, w, m) ==
    filter_take([i \in DOMAIN pa.streets |->
                    IF pa.streets[i].index < Len(w.unique_streets)
                    THEN Some(w.unique_streets[pa.streets[i].index + 1])
                    ELSE None],
                prefix, m)

\* City::iter_zips_prefixed(..).take(m).cloned().collect()
iter_zips_prefixed(ci, prefix, m) ==
    filter_take([i \in DOMAIN ci.areas |-> Some(ci.areas[i].code)], prefix, m)

\* Country::iter_cities_prefixed(..).take(m).cloned().collect()
iter_cities_prefixed(co, prefix, m) ==
    filter_take([i \in DOMAIN co.cities |-> Some(co.cities[i].name)], prefix, m)

(***************************************************************************)
(* api.rs: the four handlers.                                              *)
(***************************************************************************)
\* A response: Ok(Json(body)) is status 200, Err((NOT_FOUND, reason)) is 404;
\* panic marks a handler that panicked instead of answering. The reason is a
\* text and the argument format!() puts into it.
Ok200(body) ==
    [status |-> 200, body |-> body, reason |-> "", arg |-> <<>>, panic |-> FALSE]
NotFound(reason, arg) ==
    [status |-> 404, body |-> <<>>, reason |-> reason, arg |-> arg, panic |-> FALSE]
Panicked ==
    [status |-> 0, body |-> <<>>, reason |-> "", arg |-> <<>>, panic |-> TRUE]
Collected(r) == IF r.panic THEN Panicked ELSE Ok200(r.items)

\* Mutant: a value that does not parse bounds the response to zero entries.
MaxItems_from_request_or_default(header) ==
    IF IsSome(header) /\ Unwrap(header).ok
    THEN LET n == parse_unsigned(Unwrap(header).v, USIZE_MAX)
         IN IF IsSome(n) THEN Unwrap(n) ELSE 0
    ELSE USIZE_MAX

\* impl FromRequest for MaxItems. The header is None when absent, else
\* Some([ok, v]): to_str() gave Ok(v), or Err (ok = FALSE).
MaxItems_from_request(header) ==
    IF IsSome(header) /\ Unwrap(header).ok
    THEN LET n == parse_unsigned(Unwrap(header).v, USIZE_MAX)
         IN IF IsSome(n) THEN Unwrap(n) ELSE USIZE_MAX
    ELSE USIZE_MAX

\* Option::unwrap_or(String::new()) of the prefix parameter
prefix_or_empty(prefix) == IF IsSome(prefix) THEN Unwrap(prefix) ELSE s_empty

\* w.get_country(..).and_then(|c| c.get_city(..))
lookup_city(w, q) ==
    LET co == get_country(w, q.country_code)
    IN IF IsSome(co) THEN get_city(Unwrap(co), q.city_name) ELSE None

\* ...and_then(|city| city.get_postal_area(..))
lookup_postal_area(w, q) ==
    LET ci == lookup_city(w, q)
    IN IF IsSome(ci) THEN get_postal_area(Unwrap(ci), q.zip) ELSE None

\* get_cities
get_cities(w, q) ==
    LET m == MaxItems_from_request(q.max_items)
        co == get_country(w, q.country_code)
    IN IF IsSome(co)
       THEN Collected(iter_cities_prefixed(Unwrap(co), prefix_or_empty(q.prefix), m))
       ELSE NotFound("Country {} not found", q.country_code)

\* Mutant: an unknown city is answered like a city without postal areas.
get_zips_empty_for_unknown(w, q) ==
    LET m == MaxItems_from_request(q.max_items)
        ci == lookup_city(w, q)
    IN IF IsSome(ci)
       THEN Collected(iter_zips_prefixed(Unwrap(ci), prefix_or_empty(q.prefix), m))
       ELSE Ok200(<<>>)

\* get_zips
get_zips(w, q) ==
    LET m == MaxItems_from_request(q.max_items)
        ci == lookup_city(w, q)
    IN IF IsSome(ci)
       THEN Collected(iter_zips_prefixed(Unwrap(ci), prefix_or_empty(q.prefix), m))
       ELSE NotFound("Country/city not found", <<>>)

\* get_streets
get_streets(w, q) ==
    LET m == MaxItems_from_request(q.max_items)
        pa == lookup_postal_area(w, q)
    IN IF IsSome(pa)
       THEN Collected(iter_streets_prefixed(Unwrap(pa), prefix_or_empty(q.prefix), w, m))
       ELSE NotFound("Country/city/zip not found", <<>>)

\* get_housenumbers
get_housenumbers(w, q) ==
    LET m == MaxItems_from_request(q.max_items)
        pa == lookup_postal_area(w, q)
    IN IF ~IsSome(pa)
       THEN NotFound("Country/city/zip/street not found", <<>>)
       ELSE IF get_street_panics(Unwrap(pa), q.street, w) THEN Panicked
       ELSE LET st == get_street(Unwrap(pa), q.street, w)
            IN IF IsSome(st)
               THEN Collected(iter_housenumbers_prefixed(
                        Unwrap(st), prefix_or_empty(q.prefix), w, m))
               ELSE NotFound("Country/city/zip/street not found", <<>>)

\* get_app: the routes
route(w, q) ==
    CASE q.endpoint = "/cities" -> get_cities(w, q)
      [] q.endpoint = "/zips" -> get_zips(w, q)
      [] q.endpoint = "/streets" -> get_streets(w, q)
      [] q.endpoint = "/housenumbers" -> get_housenumbers(w, q)

(***************************************************************************)
(* The inputs the model draws from.                                        *)
(***************************************************************************)
Line(co, ci, po, st, hn) ==
    [country |-> co, city |-> ci, postcode |-> po, street |-> st,
     housenumber |-> hn]

\* Complete input lines: keys that differ only in letter case, a country given
\* by name, house numbers on both sides of the CleanInt classifier.
CompleteLines ==
    { Line(Some(s_DE), Some(s_Berlin), Some(s_10115), Some(s_Bach), Some(s_1)),
      Line(Some(s_DE), Some(s_Berlin), Some(s_10115), Some(s_Bach), Some(s_10)),
      Line(Some(s_DE), Some(s_Berlin), Some(s_10115), Some(s_Bach), Some(s_2)),
      Line(Some(s_DE), Some(s_Berlin), Some(s_10115), Some(s_Bach), Some(s_12a)),
      Line(Some(s_DE), Some(s_Berlin), Some(s_10115), Some(s_Abbey), Some(s_01)),
      Line(Some(s_de), Some(s_Berlin), Some(s_10115), Some(s_Bach), Some(s_65535)),
      Line(Some(s_DE), Some(s_berlin), Some(s_10115), Some(s_bach), Some(s_65536)),
      Line(Some(s_Germany), Some(s_Bonn), Some(s_53111), Some(s_Abbey), Some(s_0)),
      Line(Some(s_AT), Some(s_Bonn), Some(s_10115), Some(s_Abbey), Some(s_plus5)),
      Line(Some(s_Oesterreich), Some(s_Bonn), Some(s_10115), Some(s_Abbey), Some(s_plus5)),
      Line(Some(s_DE), Some(s_Berlin), Some(s_53111), Some(s_bach), Some(s_12a)) }

\* A line the extractor can write and serde rejects: no country.
IncompleteLines ==
    { Line(None, Some(s_Berlin), Some(s_10115), Some(s_Bach), Some(s_1)) }

InputLines == CompleteLines \cup IncompleteLines

\* The addresses the builder can be fed.
Records == {Unwrap(iter_items(l)) : l \in CompleteLines}

\* The max-items header: absent, text, or bytes that are not visible ASCII.
Headers ==
    { None, Some([ok |-> FALSE, v |-> s_empty]) }
    \cup { Some([ok |-> TRUE, v |-> v]) : v \in {s_0, s_1, s_2, s_minus1} }

Prefixes == { None, Some(s_1), Some(s_B) }

Query(endpoint, cc, city, zip, street, prefix, header) ==
    [endpoint |-> endpoint, country_code |-> cc, city_name |-> city, zip |-> zip,
     street |-> street, prefix |-> prefix, max_items |-> header]

QCountries == { s_de, s_XX }
QCities == { s_BERLIN, s_Nowhere }
QZips == { s_10115, s_00000 }
QStreets == { s_BACH, s_Nope }

NoRequest == Query("", s_empty, s_empty, s_empty, s_empty, None, None)
NoResponse == [status |-> 0, body |-> <<>>, reason |-> "", arg |-> <<>>,
               panic |-> FALSE]

\* The orders in which a HashSet's into_iter() can yield its elements.
Orderings(S) == {f \in [1..Cardinality(S) -> S] : Range(f) = S}

(***************************************************************************)
(* The processes: `compress` (read_and_compress, compress) and `serve`.    *)
(***************************************************************************)
\* The parse subcommand and the autofixer when they are not the ones running.
ExtractOff ==
    /\ file = <<>> /\ xpc = "off" /\ xpos = 0
    /\ node_ids_required_by_ways = {} /\ node_coordinates = <<>>
    /\ out = <<>> /\ error = None

AutofixOff ==
    /\ incomplete_addresses = <<>> /\ fixed = <<>> /\ unfixable = <<>>
    /\ popped = None /\ input = <<>> /\ requeues = 0 /\ afpc = "off"

\* No reader is open.
ReaderOff ==
    /\ rpc = "off" /\ overflow_checks = FALSE
    /\ inner = [len |-> 0, pos |-> 0] /\ filesize = 0
    /\ position_fast = 0 /\ update_count = 0 /\ position_slow = 0 /\ seek_count = 0
    /\ count_fast = 0 /\ count_count = 0 /\ count_slow = 0
    /\ bytes_read = 0 /\ seeks = 0 /\ sought = None

Callers == 1..MaxCallers
Threads == 1..MaxCalls

\* No manager exists.
PrinterOff ==
    /\ output_thread = None /\ mutex = None /\ guard_scope = "block"
    /\ callers = [c \in Callers |-> [pc |-> "off", call |-> "none", alone |-> TRUE,
                                     join_handle |-> None, taken |-> None]]
    /\ threads = [t \in Threads |-> [state |-> "unspawned", sender |-> FALSE,
                                     message |-> FALSE, lines |-> 0]]
    /\ calls = 0 /\ stopped = {} /\ last_returned = [call |-> "none", alone |-> TRUE]

Handlers == 1..MaxHandlers

\* A handler task that holds no request.
NoTask == [pc |-> "idle", request |-> NoRequest, panic |-> FALSE, found |-> None,
           response |-> NoResponse]

\* No request is being handled.
HandlersOff == tasks = [h \in Handlers |-> NoTask]

OthersOff == ReaderOff /\ PrinterOff /\ HandlersOff

\* main with the compress subcommand, followed by serve.
Init ==
    /\ pc = "reading"
    /\ addresses = <<>>
    /\ streets = {}
    /\ uncompressable_house_numbers = {}
    /\ world = World_new(<<>>, <<>>)
    /\ compress_i = 0
    /\ fed = {}
    /\ request = NoRequest
    /\ response = NoResponse
    /\ text = None
    /\ ExtractOff /\ AutofixOff
    /\ exit_status = None
    /\ OthersOff

\* Mutant: a house number is interned only when it does not parse as u16, so
\* "01" is left out of the table.
collect_item_unparsed_only(item) ==
    /\ streets' = streets \cup {item.street}
    /\ uncompressable_house_numbers' =
          IF ~IsSome(parse_unsigned(item.housenumber, U16_MAX))
          THEN uncompressable_house_numbers \cup {item.housenumber}
          ELSE uncompressable_house_numbers
    /\ addresses' = Append(addresses, item)

\* Mutant: every house number is interned, clean or not.
collect_item_intern_all(item) ==
    /\ streets' = streets \cup {item.street}
    /\ uncompressable_house_numbers' =
          uncompressable_house_numbers \cup {item.housenumber}
    /\ addresses' = Append(addresses, item)

\* read_and_compress, the body of the loop over iter_items(stdin) for an Ok
\* item (lines 368-373).
collect_item(item) ==
    /\ streets' = streets \cup {item.street}
    /\ uncompressable_house_numbers' =
          IF ~num_compressable(item.housenumber)
          THEN uncompressable_house_numbers \cup {item.housenumber}
          ELSE uncompressable_house_numbers
    /\ addresses' = Append(addresses, item)

\* read_and_compress: one turn of the loop; `item?` returns the Err.
ReadItem ==
    /\ pc = "reading"
    /\ Len(addresses) < MaxRecords
    /\ \E line \in InputLines :
          LET item == iter_items(line)
          IN /\ text' = Some(line)
             /\ IF IsSome(item)
                THEN /\ collect_item(Unwrap(item))
                     /\ fed' = fed \cup {Unwrap(item)}
                     /\ pc' = "reading"
                ELSE /\ pc' = "failed"
                     /\ UNCHANGED <<addresses, streets,
                                    uncompressable_house_numbers, fed>>
    /\ UNCHANGED <<world, compress_i, request, response>>
    /\ UNCHANGED <<extract_vars, autofix_vars, exit_status, other_vars>>

\* read_and_compress after the loop: the two sets are collected into Vecs in
\* the sets' iteration order, sorted into SortedVecs, and compress() makes the
\* World from them.
EndOfInput ==
    /\ pc = "reading"
    /\ \E sv \in Orderings(streets), hv \in Orderings(uncompressable_house_numbers) :
          world' = World_new(SortedVec_from(sv), SortedVec_from(hv))
    /\ pc' = "compress"
    /\ text' = None
    /\ UNCHANGED <<addresses, streets, uncompressable_house_numbers, compress_i, fed,
                   request, response>>
    /\ UNCHANGED <<extract_vars, autofix_vars, exit_status, other_vars>>

\* compress: one turn of `while let Some(addr) = addresses.pop()`.
InsertNext ==
    /\ pc = "compress"
    /\ addresses # <<>>
    /\ LET addr == addresses[Len(addresses)]
           w == World_insert_address(world, addr.country, addr.city,
                                     addr.postcode, addr.street, addr.housenumber)
       IN /\ addresses' = SubSeq(addresses, 1, Len(addresses) - 1)
          /\ compress_i' = compress_i + 1
          /\ IF IsSome(w)
             THEN world' = Unwrap(w) /\ pc' = "compress"
             ELSE world' = world /\ pc' = "panicked"
    /\ UNCHANGED <<streets, uncompressable_house_numbers, fed, request, response>>
    /\ UNCHANGED <<text, extract_vars, autofix_vars, exit_status, other_vars>>

\* compress after the loop: world.sort() and the dump to stdout.
SortAndDump ==
    /\ pc = "compress"
    /\ addresses = <<>>
    /\ LET w == World_sort(world)
       IN IF IsSome(w)
          THEN world' = Unwrap(w) /\ pc' = "dumped"
          ELSE world' = world /\ pc' = "panicked"
    /\ UNCHANGED <<addresses, streets, uncompressable_house_numbers, compress_i, fed,
                   request, response>>
    /\ UNCHANGED <<text, extract_vars, autofix_vars, exit_status, other_vars>>

\* serve, get_app: once the compress process has ended, the World it dumped
\* becomes the shared state of the router.
Serve ==
    /\ pc = "dumped" /\ exit_status # None
    /\ pc' = "serving"
    /\ UNCHANGED <<addresses, streets, uncompressable_house_numbers, world,
                   compress_i, fed, request, response>>
    /\ UNCHANGED <<text, extract_vars, autofix_vars, exit_status, other_vars>>

\* A request arrives and its handler (with the extractors of its signature)
\* computes the response.
Idle == request = NoRequest /\ response = NoResponse

GetCities ==
    /\ pc = "serving" /\ Idle
    /\ \E cc \in QCountries, p \in Prefixes, h \in Headers :
          LET q == Query("/cities", cc, s_empty, s_empty, s_empty, p, h)
          IN request' = q /\ response' = get_cities(world, q)
    /\ UNCHANGED <<pc, addresses, streets, uncompressable_house_numbers, world, compress_i, fed>>
    /\ UNCHANGED <<text, extract_vars, autofix_vars, exit_status, other_vars>>

GetZips ==
    /\ pc = "serving" /\ Idle
    /\ \E cc \in QCountries, ci \in QCities, p \in Prefixes, h \in Headers :
          LET q == Query("/zips", cc, ci, s_empty, s_empty, p, h)
          IN request' = q /\ response' = get_zips(world, q)
    /\ UNCHANGED <<pc, addresses, streets, uncompressable_house_numbers, world, compress_i, fed>>
    /\ UNCHANGED <<text, extract_vars, autofix_vars, exit_status, other_vars>>

GetStreets ==
    /\ pc = "serving" /\ Idle
    /\ \E cc \in QCountries, ci \in QCities, z \in QZips, p \in Prefixes,
          h \in Headers :
          LET q == Query("/streets", cc, ci, z, s_empty, p, h)
          IN request' = q /\ response' = get_streets(world, q)
    /\ UNCHANGED <<pc, addresses, streets, uncompressable_house_numbers, world, compress_i, fed>>
    /\ UNCHANGED <<text, extract_vars, autofix_vars, exit_status, other_vars>>

GetHousenumbers ==
    /\ pc = "serving" /\ Idle
    /\ \E cc \in QCountries, ci \in QCities, z \in QZips, st \in QStreets,
          p \in Prefixes, h \in Headers :
          LET q == Query("/housenumbers", cc, ci, z, st, p, h)
          IN request' = q /\ response' = get_housenumbers(world, q)
    /\ UNCHANGED <<pc, addresses, streets, uncompressable_house_numbers, world, compress_i, fed>>
    /\ UNCHANGED <<text, extract_vars, autofix_vars, exit_status, other_vars>>

\* The response is sent; the server waits for the next request.
Reply ==
    /\ pc = "serving" /\ ~Idle
    /\ request' = NoRequest
    /\ response' = NoResponse
    /\ UNCHANGED <<pc, addresses, streets, uncompressable_house_numbers, world, compress_i, fed>>
    /\ UNCHANGED <<text, extract_vars, autofix_vars, exit_status, other_vars>>

\* main: the stage returned its Result, main logs an Err and returns Ok(()).
MainReturn ==
    /\ exit_status = None
    /\ pc \in {"failed", "dumped"} \/ xpc \in {"failed", "done"}
    /\ exit_status' = Some(0)
    /\ UNCHANGED <<compress_vars, extract_vars, autofix_vars, other_vars>>

\* A panic unwinds main: the runtime ends the process with status 101.
PanicAbort ==
    /\ exit_status = None
    /\ pc = "panicked" \/ xpc = "panicked"
    /\ exit_status' = Some(101)
    /\ UNCHANGED <<compress_vars, extract_vars, autofix_vars, other_vars>>

Next ==
    \/ ReadItem
    \/ EndOfInput
    \/ InsertNext
    \/ SortAndDump
    \/ MainReturn
    \/ Serve
    \/ GetCities
    \/ GetZips
    \/ GetStreets
    \/ GetHousenumbers
    \/ Reply

Spec == Init /\ [][Next]_vars

(***************************************************************************)
(* Properties.                                                             *)
(***************************************************************************)
Built == pc \in {"dumped", "serving"}

\* The string a stored house number stands for, Some(string), or None for an
\* Index beyond the table.
Rendered(w, hn) ==
    IF hn.tag = "CleanInt" THEN Some(to_string(hn.v))
    ELSE IF hn.v < Len(w.housenumbers) THEN Some(w.housenumbers[hn.v + 1])
    ELSE None

\* The streets stored under exactly the keys of record r.
StreetsAt(w, r) ==
    {st \in AllStreets(w) :
        \E co \in Range(w.countries) : \E ci \in Range(co.cities) :
        \E pa \in Range(ci.areas) :
            /\ co.code = r.country /\ ci.name = r.city /\ pa.code = r.postcode
            /\ st \in Range(pa.streets)
            /\ st.index < Len(w.unique_streets)
            /\ w.unique_streets[st.index + 1] = r.street}

\* The house numbers stored for record r: those under its keys that render as
\* its house-number string.
StoredForms(w, r) ==
    UNION {{hn \in Range(st.housenumbers) : Rendered(w, hn) = Some(r.housenumber)}
           : st \in StreetsAt(w, r)}

\* Record r is in the World.
Contains(w, r) == StoredForms(w, r) # {}

\* Record t is reached by the query path get_country -> get_city ->
\* get_postal_area -> get_street -> iter_housenumbers_prefixed("").
Reaches(w, t) ==
    LET co == get_country(w, t.country)
        ci == IF IsSome(co) THEN get_city(Unwrap(co), t.city) ELSE None
        pa == IF IsSome(ci) THEN get_postal_area(Unwrap(ci), t.postcode) ELSE None
        st == IF IsSome(pa) /\ ~get_street_panics(Unwrap(pa), t.street, w)
              THEN get_street(Unwrap(pa), t.street, w) ELSE None
        hn == IF IsSome(st)
              THEN iter_housenumbers_prefixed(Unwrap(st), s_empty, w, USIZE_MAX)
              ELSE [panic |-> FALSE, items |-> <<>>]
    IN ~hn.panic /\ t.housenumber \in Range(hn.items)

\* C1 (as claimed): in the built World a record is reached by the query path
\* exactly when it was fed to the builder: nothing fed is unreachable, nothing
\* reachable was not fed.
C1_QueryableIffFed ==
    Built => \A t \in Records : Reaches(world, t) <=> t \in fed

\* The divergence behind C1: a fed record whose country, city or street is
\* shadowed by a sibling that differs only in letter case is not reached.
C1_FedIsReached ==
    Built => \A t \in fed : Reaches(world, t)

\* A decimal numeral of a value in 0..65535 without sign or leading zero,
\* decided on the characters.
RECURSIVE DecimalValue(_)
DecimalValue(s) ==
    IF s = <<>> THEN 0
    ELSE 10 * DecimalValue(SubSeq(s, 1, Len(s) - 1)) + (s[Len(s)] - 48)

IsCleanDecimal(s) ==
    /\ Len(s) \in 1..5
    /\ \A k \in DOMAIN s : s[k] \in 48..57
    /\ Len(s) > 1 => s[1] # 48
    /\ DecimalValue(s) <= 65535

\* Every address popped from `addresses` has been inserted.
AllInserted == (pc = "compress" /\ addresses = <<>>) \/ Built

\* C2: a house number is stored as CleanInt(n) if and only if its string is
\* the decimal rendering of n in 0..65535, and as Index(i) of its string in the
\* root table otherwise; "0" and "65535" are clean, "01", "65536", "12a" not.
C2_CleanIntIffDecimal ==
    /\ AllInserted =>
          \A r \in fed :
             /\ StoredForms(world, r) # {}
             /\ \A hn \in StoredForms(world, r) :
                   IF IsCleanDecimal(r.housenumber)
                   THEN hn = CleanInt(DecimalValue(r.housenumber))
                   ELSE hn.tag = "Index"
    /\ \A hn \in UNION {Range(st.housenumbers) : st \in AllStreets(world)} :
          hn.tag = "CleanInt" =>
             \E r \in fed : r.housenumber = to_string(hn.v) /\ hn.v \in 0..65535
    /\ num_compressable(s_0) /\ num_compressable(s_65535)
    /\ ~num_compressable(s_01) /\ ~num_compressable(s_65536)
    /\ ~num_compressable(s_12a)

\* C2 witness: "65535" is stored clean beside "65536" and "01" stored by index.
C2_Witness ==
    /\ AllInserted
    /\ \E r1, r2, r3 \in fed :
          /\ r1.housenumber = s_65535 /\ CleanInt(65535) \in StoredForms(world, r1)
          /\ r2.housenumber = s_65536
          /\ \E hn \in StoredForms(world, r2) : hn.tag = "Index"
          /\ r3.housenumber = s_01
          /\ \E hn \in StoredForms(world, r3) : hn.tag = "Index"

StrictlyAscending(sv) ==
    \A k \in 1..(Len(sv) - 1) : str_lt(sv[k], sv[k + 1])

\* C3: in every World read_and_compress builds, the root streets table and
\* the root housenumbers table are strictly ascending (sorted, no repeats).
C3_RootTablesStrictlyAscending ==
    pc \in {"compress", "dumped", "serving"} =>
       /\ StrictlyAscending(world.unique_streets)
       /\ StrictlyAscending(world.housenumbers)
       /\ Range(world.unique_streets) = streets
       /\ Range(world.housenumbers) = uncompressable_house_numbers

\* C3 witness: three addresses that repeat a street name and a house number
\* gave two-element tables.
C3_Witness ==
    /\ pc = "compress" /\ Len(addresses) = 3
    /\ Len(world.unique_streets) = 2 /\ Len(world.housenumbers) = 2
    /\ addresses[1].street = addresses[2].street
    /\ addresses[2].housenumber = addresses[3].housenumber

AllHousenumbers(w) == UNION {Range(st.housenumbers) : st \in AllStreets(w)}

\* C4: every stored Index(i) has i < |root.housenumbers| and every street
\* index j has j < |root.streets|; so the index_of lookups of insert_address
\* succeed for every address still to insert, and neither World::sort nor a
\* handler's rendering panics on a table access.
C4_IndicesInBounds ==
    /\ \A st \in AllStreets(world) : st.index \in 0..(Len(world.unique_streets) - 1)
    /\ \A hn \in AllHousenumbers(world) :
          hn.tag = "Index" => hn.v \in 0..(Len(world.housenumbers) - 1)
    /\ pc = "compress" =>
          \A a \in Range(addresses) :
             /\ IsSome(index_of(world.unique_streets, a.street))
             /\ IsSome(classify_housenumber(world, a.housenumber))
    /\ pc # "panicked"
    /\ ~response.panic

\* C4 witness: a handler rendered "12a" through a root table of two strings.
C4_Witness ==
    /\ pc = "serving" /\ request.endpoint = "/housenumbers"
    /\ response.status = 200 /\ s_12a \in Range(response.body)
    /\ Len(world.housenumbers) = 2 /\ Len(world.unique_streets) = 2

\* C5: the root housenumbers table holds only strings that fail the CleanInt
\* classifier: for a stored CleanInt(n), decimal(n) is not in the table, and
\* for a stored Index(i), the table's string at i is not a clean decimal.
C5_CleanAndIndexDisjoint ==
    /\ \A s \in Range(world.housenumbers) \cup uncompressable_house_numbers :
          ~IsCleanDecimal(s)
    /\ \A hn \in AllHousenumbers(world) :
          IF hn.tag = "CleanInt"
          THEN to_string(hn.v) \notin Range(world.housenumbers)
          ELSE /\ hn.v < Len(world.housenumbers)
               /\ ~IsCleanDecimal(world.housenumbers[hn.v + 1])

\* C5 witness: one street holds a CleanInt and an Index.
C5_Witness ==
    /\ AllInserted
    /\ \E st \in AllStreets(world) :
          /\ \E hn \in Range(st.housenumbers) : hn.tag = "CleanInt"
          /\ \E hn \in Range(st.housenumbers) : hn.tag = "Index"

\* The elements of a sequence of keys are pairwise different.
Distinct(keys) ==
    \A a, b \in DOMAIN keys : a # b => keys[a] # keys[b]

\* C6: no two sibling containers have equal keys: countries by code, cities
\* of a country by name, postal areas of a city by code, streets of a postal
\* area by street-id, house numbers of a street by rendered form.
C6_SiblingKeysDistinct ==
    /\ Distinct([k \in DOMAIN world.countries |-> world.countries[k].code])
    /\ \A co \in Range(world.countries) :
          /\ Distinct([k \in DOMAIN co.cities |-> co.cities[k].name])
          /\ \A ci \in Range(co.cities) :
                /\ Distinct([k \in DOMAIN ci.areas |-> ci.areas[k].code])
                /\ \A pa \in Range(ci.areas) :
                      /\ Distinct([k \in DOMAIN pa.streets |-> pa.streets[k].index])
                      /\ \A st \in Range(pa.streets) :
                            Distinct([k \in DOMAIN st.housenumbers |->
                                         Rendered(world, st.housenumbers[k])])

\* C6 witness: three inserts, one of them of a tuple inserted before, left one
\* country, one city, one postal area and one street with two house numbers.
C6_Witness ==
    /\ pc = "compress" /\ addresses = <<>> /\ compress_i = 3
    /\ Cardinality(fed) = 2
    /\ Cardinality(AllStreets(world)) = 1
    /\ \A st \in AllStreets(world) : Len(st.housenumbers) = 2

\* What compress builds from world w by popping and inserting addrs.
RECURSIVE InsertAll(_, _)
InsertAll(w, addrs) ==
    IF addrs = <<>> THEN w
    ELSE LET a == addrs[Len(addrs)]
             n == World_insert_address(w, a.country, a.city, a.postcode,
                                       a.street, a.housenumber)
         IN IF IsSome(n) THEN InsertAll(Unwrap(n), SubSeq(addrs, 1, Len(addrs) - 1))
            ELSE w

\* addrs without the records already in w and without the records popped
\* earlier (standing later in addrs).
Deduplicated(w, addrs) ==
    FilterIdx(addrs, {k \in DOMAIN addrs :
                         /\ ~Contains(w, addrs[k])
                         /\ \A j \in (k + 1)..Len(addrs) : addrs[j] # addrs[k]})

\* C7: inserting a tuple that is already in the World leaves the World
\* unchanged, and the addresses still to insert build the same World as their
\* deduplicated list.
C7_InsertIdempotent ==
    pc \in {"compress", "dumped", "serving"} =>
       /\ \A r \in Records :
             Contains(world, r) =>
                World_insert_address(world, r.country, r.city, r.postcode,
                                     r.street, r.housenumber) = Some(world)
       /\ InsertAll(world, addresses)
             = InsertAll(world, Deduplicated(world, addresses))

\* C7 witness: the same tuple was inserted twice and is stored once.
C7_Witness ==
    /\ pc = "compress" /\ addresses = <<>> /\ compress_i = 2
    /\ Cardinality(fed) = 1
    /\ Cardinality(AllHousenumbers(world)) = 1
    /\ \A st \in AllStreets(world) : Len(st.housenumbers) = 1

\* The keys of a sequence ascend: no element is less than one before it.
Ascending(keys) ==
    \A a, b \in DOMAIN keys : a < b => ~str_lt(keys[b], keys[a])

\* C8: after World::sort every level is in canonical order: countries by
\* code, cities by name, postal areas by postcode, streets by street-id, the
\* house numbers of a street by their rendered strings, compared as strings
\* ("1" < "10" < "2").
C8_SortedAtEveryLevel ==
    Built =>
       /\ Ascending([k \in DOMAIN world.countries |-> world.countries[k].code])
       /\ \A co \in Range(world.countries) :
             /\ Ascending([k \in DOMAIN co.cities |-> co.cities[k].name])
             /\ \A ci \in Range(co.cities) :
                   /\ Ascending([k \in DOMAIN ci.areas |-> ci.areas[k].code])
                   /\ \A pa \in Range(ci.areas) :
                         /\ \A a, b \in DOMAIN pa.streets :
                               a < b => pa.streets[a].index <= pa.streets[b].index
                         /\ \A st \in Range(pa.streets) :
                               Ascending([k \in DOMAIN st.housenumbers |->
                                  Unwrap(Rendered(world, st.housenumbers[k]))])

\* C8 witness: a sorted street renders as "1", "10", "2".
C8_Witness ==
    /\ Built
    /\ \E st \in AllStreets(world) :
          [k \in DOMAIN st.housenumbers |-> Rendered(world, st.housenumbers[k])]
             = <<Some(s_1), Some(s_10), Some(s_2)>>

Serving == pc = "serving" /\ request # NoRequest

\* How many segments of the lookup path country, city, zip, street of query q
\* are matched, each within the container the one before addressed.
Deepest(w, q) ==
    LET co == get_country(w, q.country_code)
        ci == IF IsSome(co) THEN get_city(Unwrap(co), q.city_name) ELSE None
        pa == IF IsSome(ci) THEN get_postal_area(Unwrap(ci), q.zip) ELSE None
        st == IF IsSome(pa) THEN get_street(Unwrap(pa), q.street, w) ELSE None
    IN IF ~IsSome(co) THEN 0 ELSE IF ~IsSome(ci) THEN 1
       ELSE IF ~IsSome(pa) THEN 2 ELSE IF ~IsSome(st) THEN 3 ELSE 4

\* The number of parent segments an endpoint looks up.
Needed(endpoint) ==
    CASE endpoint = "/cities" -> 1
      [] endpoint = "/zips" -> 2
      [] endpoint = "/streets" -> 3
      [] endpoint = "/housenumbers" -> 4

ParentsMatch(w, q) == Deepest(w, q) >= Needed(q.endpoint)

\* The entries of the container query q addresses, rendered, in stored order.
Entries(w, q) ==
    LET co == Unwrap(get_country(w, q.country_code))
        ci == Unwrap(get_city(co, q.city_name))
        pa == Unwrap(get_postal_area(ci, q.zip))
        st == Unwrap(get_street(pa, q.street, w))
    IN CASE q.endpoint = "/cities" ->
              [k \in DOMAIN co.cities |-> co.cities[k].name]
         [] q.endpoint = "/zips" ->
              [k \in DOMAIN ci.areas |-> ci.areas[k].code]
         [] q.endpoint = "/streets" ->
              [k \in DOMAIN pa.streets |-> w.unique_streets[pa.streets[k].index + 1]]
         [] q.endpoint = "/housenumbers" ->
              [k \in DOMAIN st.housenumbers |->
                  Unwrap(Rendered(w, st.housenumbers[k]))]

\* The positions of the entries whose lowercased rendering starts with the
\* lowercased prefix.
Matching(entries, prefix) ==
    {k \in DOMAIN entries :
        starts_with(to_lowercase(entries[k]), to_lowercase(prefix))}

\* The first n matching entries, in stored order.
FirstMatching(entries, prefix, n) ==
    LET M == Matching(entries, prefix)
    IN [j \in 1..n |->
           entries[CHOOSE k \in M : Cardinality({l \in M : l <= k}) = j]]

\* C9: when all parent segments of a query match, the response is 200 with
\* exactly the first min(max_items, k) of the k entries of the addressed
\* container that match the prefix, in stored order; max_items = 0 gives the
\* empty array.
C9_FirstMaxItemsOfMatches ==
    (Serving /\ ParentsMatch(world, request)) =>
       LET m == MaxItems_from_request(request.max_items)
           prefix == IF IsSome(request.prefix) THEN Unwrap(request.prefix)
                     ELSE s_empty
           entries == Entries(world, request)
           k == Cardinality(Matching(entries, prefix))
       IN /\ response.status = 200
          /\ response.body = FirstMatching(entries, prefix, Min(m, k))
          /\ m = 0 => response.body = <<>>

\* C9 witness: max-items 1 cut the two matches of prefix "1" among the house
\* numbers 1, 10, 2 down to the first.
C9_Witness ==
    /\ Serving /\ request.endpoint = "/housenumbers"
    /\ request.prefix = Some(s_1)
    /\ request.max_items = Some([ok |-> TRUE, v |-> s_1])
    /\ ParentsMatch(world, request)
    /\ Entries(world, request) = <<s_1, s_10, s_2>>
    /\ response.body = <<s_1>>

\* The queries of one endpoint over every combination of parent segments.
Probes(endpoint) ==
    {Query(endpoint, cc, ci, z, st, None, None) :
        cc \in QCountries, ci \in QCities, z \in QZips, st \in QStreets}

ReasonOf(endpoint) ==
    CASE endpoint = "/cities" -> "Country {} not found"
      [] endpoint = "/zips" -> "Country/city not found"
      [] endpoint = "/streets" -> "Country/city/zip not found"
      [] endpoint = "/housenumbers" -> "Country/city/zip/street not found"

SameUpToCase(a, b) ==
    /\ Len(a) = Len(b)
    /\ \A k \in DOMAIN a :
          \/ a[k] = b[k]
          \/ a[k] \in 65..90 /\ b[k] = a[k] + 32
          \/ a[k] \in 97..122 /\ b[k] = a[k] - 32

\* The requests that differ from q at most in the letter case of their
\* parent segments.
CaseVariants(q) ==
    {v \in {Query(q.endpoint, cc, ci, z, st, q.prefix, q.max_items) :
               cc \in {s_de, s_DE, s_XX},
               ci \in {s_BERLIN, s_Berlin, s_berlin, s_Nowhere, s_empty},
               z \in QZips \cup {s_empty},
               st \in {s_BACH, s_Bach, s_bach, s_Nope, s_empty}} :
        /\ SameUpToCase(v.country_code, q.country_code)
        /\ SameUpToCase(v.city_name, q.city_name)
        /\ SameUpToCase(v.zip, q.zip)
        /\ SameUpToCase(v.street, q.street)}

\* C11: parent-segment lookup ignores letter case: every request that differs
\* from the answered one only in the letter case of country_code, city_name,
\* zip or street gets the same status and the same result array.
C11_LookupIgnoresCase ==
    Serving =>
       \A v \in CaseVariants(request) :
          /\ route(world, v).status = response.status
          /\ route(world, v).body = response.body

\* C11 witness: city BERLIN was asked for, the World stores it as "Berlin" only,
\* and its postal areas were returned.
C11_Witness ==
    /\ Serving /\ request.endpoint = "/zips"
    /\ request.city_name = s_BERLIN
    /\ response.status = 200 /\ response.body # <<>>
    /\ \A co \in Range(world.countries) : \A ci \in Range(co.cities) :
          ci.name # s_BERLIN
    /\ Cardinality(CaseVariants(request)) > 1

\* Whether a header value is text spelling a non-negative integer within
\* usize: an optional '+' and then digits only.
HeaderDigits(header) ==
    LET v == Unwrap(header).v
    IN IF v # <<>> /\ v[1] = 43 THEN Tail(v) ELSE v

HeaderIsNumber(header) ==
    /\ IsSome(header) /\ Unwrap(header).ok
    /\ HeaderDigits(header) # <<>>
    /\ \A k \in DOMAIN HeaderDigits(header) : HeaderDigits(header)[k] \in 48..57
    /\ DecimalValue(HeaderDigits(header)) <= USIZE_MAX

\* C12: a max-items header whose value parses as a non-negative integer N
\* bounds the response to its first N entries; an absent, non-text or
\* unparsable header leaves the response unbounded; the header never changes
\* the status.
C12_MaxItemsHeader ==
    Serving =>
       LET unbounded == route(world, [request EXCEPT !.max_items = None])
           N == DecimalValue(HeaderDigits(request.max_items))
       IN /\ ~response.panic
          /\ response.status = unbounded.status
          /\ IF HeaderIsNumber(request.max_items)
             THEN /\ Len(response.body) <= N
                  /\ response.body =
                        SubSeq(unbounded.body, 1, Min(N, Len(unbounded.body)))
             ELSE response.body = unbounded.body

\* C12 witness: the header "-1" does not parse and the response carries more
\* entries than any header of the model would allow.
C12_Witness ==
    /\ Serving /\ request.max_items = Some([ok |-> TRUE, v |-> s_minus1])
    /\ response.status = 200 /\ Len(response.body) = 3

(***************************************************************************)
(* parse_coordinates.rs: the extractor, process_osm_pdf_to_stdout.         *)
(* An entity is [kind, id, tags, lon, lat, nodes]; kind "corrupt" is a     *)
(* blob par_iter() cannot decode. Of the tags only the five addr:* keys    *)
(* the code reads are kept, each an Option.                                *)
(***************************************************************************)
Tags(co, ci, po, st, hn) ==
    [addr_country |-> co, addr_city |-> ci, addr_postcode |-> po,
     addr_street |-> st, addr_housenumber |-> hn]

NoTags == Tags(None, None, None, None, None)

Node(id, tags, lon, lat) ==
    [kind |-> "node", id |-> id, tags |-> tags, lon |-> lon, lat |-> lat,
     nodes |-> <<>>]
Way(id, tags, nodes) ==
    [kind |-> "way", id |-> id, tags |-> tags, lon |-> 0, lat |-> 0,
     nodes |-> nodes]
Relation(id, tags) ==
    [kind |-> "relation", id |-> id, tags |-> tags, lon |-> 0, lat |-> 0,
     nodes |-> <<>>]
Corrupt(id) ==
    [kind |-> "corrupt", id |-> id, tags |-> NoTags, lon |-> 0, lat |-> 0,
     nodes |-> <<>>]

\* is_address
is_address(t) == IsSome(t.addr_housenumber) /\ IsSome(t.addr_street)

\* i64 `/`: the quotient truncated toward zero (b > 0).
i64_div(a, b) == IF a >= 0 THEN a \div b ELSE -((-a) \div b)

RECURSIVE SumOf(_, _)
SumOf(it, k) ==
    IF it = <<>> THEN 0 ELSE it[1][1][k] + SumOf(Tail(it), k)

\* avg_coords over a sequence of Option<(i32, i32)>: `item?` returns None at
\* the first None; with no item at all `a / count` divides by zero and panics.
avg_coords(it) ==
    IF \E k \in DOMAIN it : it[k] = None
    THEN [panic |-> FALSE, value |-> None]
    ELSE IF it = <<>>
         THEN [panic |-> TRUE, value |-> None]
         ELSE [panic |-> FALSE,
               value |-> Some(<<i64_div(SumOf(it, 1), Len(it)),
                                i64_div(SumOf(it, 2), Len(it))>>)]

\* HashMap::get and HashMap::insert on node_coordinates
HashMap_get(map, key) == IF key \in DOMAIN map THEN Some(map[key]) ELSE None
HashMap_insert(map, key, value) ==
    [k \in DOMAIN map \cup {key} |-> IF k = key THEN value ELSE map[k]]

\* pass_one: the IncompleteAddressCoord built for an address node.
node_record(node) ==
    [housenumber |-> Unwrap(node.tags.addr_housenumber),
     street |-> Unwrap(node.tags.addr_street),
     zip |-> node.tags.addr_postcode,
     city |-> node.tags.addr_postcode,
     country |-> node.tags.addr_postcode,
     lat |-> node.lat,
     long |-> node.lon]

\* pass_two: the IncompleteAddressCoord built for an address way from
\* `let (decimicro_lat, decimicro_lon) = average_coordinates.unwrap()`.
way_record(way, average_coordinates) ==
    LET decimicro_lat == average_coordinates[1]
        decimicro_lon == average_coordinates[2]
    IN [housenumber |-> Unwrap(way.tags.addr_housenumber),
        street |-> Unwrap(way.tags.addr_street),
        zip |-> way.tags.addr_postcode,
        city |-> way.tags.addr_postcode,
        country |-> way.tags.addr_postcode,
        lat |-> decimicro_lat,
        long |-> decimicro_lon]

\* The entities the files of the model are made of.
Pool ==
    { Node(1, Tags(Some(s_DE), Some(s_Berlin), Some(s_10115), Some(s_Bach), Some(s_1)),
           0 - 7, 50),
      Node(2, NoTags, 3, 3),
      Node(3, Tags(None, None, None, Some(s_Abbey), Some(s_2)), 4, 0 - 9),
      Way(10, Tags(None, Some(s_Bonn), Some(s_53111), Some(s_Bach), Some(s_10)),
          <<1, 3>>),
      Way(11, Tags(None, None, None, Some(s_Abbey), Some(s_12a)), <<1, 2>>),
      Way(12, Tags(None, None, None, Some(s_Abbey), Some(s_01)), <<>>),
      Way(13, Tags(None, Some(s_Bonn), None, Some(s_Bach), None), <<1>>),
      Relation(20, Tags(Some(s_DE), None, None, Some(s_Bach), Some(s_0))),
      Corrupt(30) }

\* The input files: up to MaxEntities entities of the pool in any order, no
\* entity twice.
Files ==
    {f \in UNION {[1..n -> Pool] : n \in 0..MaxEntities} :
        \A a, b \in DOMAIN f : a # b => f[a] # f[b]}

CompressOff ==
    /\ pc = "off" /\ addresses = <<>> /\ streets = {}
    /\ uncompressable_house_numbers = {}
    /\ world = World_new(<<>>, <<>>) /\ compress_i = 0 /\ fed = {}
    /\ request = NoRequest /\ response = NoResponse
    /\ text = None

\* main with the parse subcommand: process_osm_pdf_to_stdout opens the file.
InitExtract ==
    /\ CompressOff /\ AutofixOff
    /\ file \in Files
    /\ xpc = "pass_one" /\ xpos = 1
    /\ node_ids_required_by_ways = {} /\ node_coordinates = <<>>
    /\ out = <<>> /\ error = None
    /\ exit_status = None
    /\ OthersOff

\* pass_one: one turn of `for obj in pbf.par_iter()`.
PassOne ==
    /\ xpc = "pass_one" /\ xpos <= Len(file)
    /\ LET obj == file[xpos]
       IN IF obj.kind = "corrupt"
          THEN /\ xpc' = "failed"
               /\ error' = Some([text |-> "{:?}", arg |-> obj.id])
               /\ UNCHANGED <<node_ids_required_by_ways, out>>
          ELSE /\ UNCHANGED <<xpc, error>>
               /\ IF ~is_address(obj.tags)
                  THEN UNCHANGED <<node_ids_required_by_ways, out>>
                  ELSE CASE obj.kind = "relation" ->
                              UNCHANGED <<node_ids_required_by_ways, out>>
                         [] obj.kind = "way" ->
                              /\ node_ids_required_by_ways' =
                                    node_ids_required_by_ways \cup Range(obj.nodes)
                              /\ out' = out
                         [] obj.kind = "node" ->
                              /\ out' = Append(out, node_record(obj))
                              /\ UNCHANGED node_ids_required_by_ways
    /\ xpos' = xpos + 1
    /\ UNCHANGED <<file, node_coordinates>>
    /\ UNCHANGED <<compress_vars, autofix_vars, exit_status, other_vars>>

\* pass_one returned Ok(node_ids_required_by_ways); pass_two rewinds the file.
PassOneEnd ==
    /\ xpc = "pass_one" /\ xpos > Len(file)
    /\ xpc' = "pass_two" /\ xpos' = 1
    /\ node_coordinates' = <<>>
    /\ UNCHANGED <<file, node_ids_required_by_ways, out, error>>
    /\ UNCHANGED <<compress_vars, autofix_vars, exit_status, other_vars>>

\* pass_two: one turn of `for obj in pbf.par_iter()`.
PassTwo ==
    /\ xpc = "pass_two" /\ xpos <= Len(file)
    /\ LET obj == file[xpos]
           avg == avg_coords([k \in DOMAIN obj.nodes |->
                                 HashMap_get(node_coordinates, obj.nodes[k])])
       IN IF obj.kind = "corrupt"
          THEN /\ xpc' = "failed"
               /\ error' = Some([text |-> "{:?}", arg |-> obj.id])
               /\ UNCHANGED <<node_coordinates, out>>
          ELSE IF ~is_address(obj.tags)
          THEN UNCHANGED <<xpc, error, node_coordinates, out>>
          ELSE CASE obj.kind = "relation" ->
                      UNCHANGED <<xpc, error, node_coordinates, out>>
                 [] obj.kind = "way" ->
                      IF avg.panic
                      THEN /\ xpc' = "panicked"
                           /\ UNCHANGED <<error, node_coordinates, out>>
                      ELSE IF avg.value = None
                      THEN /\ xpc' = "failed"
                           /\ error' = Some(
                                 [text |-> "Way {} requires nodes which have not been read yet",
                                  arg |-> obj.id])
                           /\ UNCHANGED <<node_coordinates, out>>
                      ELSE /\ out' = Append(out, way_record(obj, Unwrap(avg.value)))
                           /\ UNCHANGED <<xpc, error, node_coordinates>>
                 [] obj.kind = "node" ->
                      /\ IF obj.id \in node_ids_required_by_ways
                         THEN node_coordinates' =
                                 HashMap_insert(node_coordinates, obj.id,
                                                <<obj.lon, obj.lat>>)
                         ELSE UNCHANGED node_coordinates
                      /\ UNCHANGED <<xpc, error, out>>
    /\ xpos' = xpos + 1
    /\ UNCHANGED <<file, node_ids_required_by_ways>>
    /\ UNCHANGED <<compress_vars, autofix_vars, exit_status, other_vars>>

\* pass_two returned Ok(()).
PassTwoEnd ==
    /\ xpc = "pass_two" /\ xpos > Len(file)
    /\ xpc' = "done"
    /\ UNCHANGED <<file, xpos, node_ids_required_by_ways, node_coordinates, out, error>>
    /\ UNCHANGED <<compress_vars, autofix_vars, exit_status, other_vars>>

NextExtract ==
    \/ PassOne
    \/ PassOneEnd
    \/ PassTwo
    \/ PassTwoEnd
    \/ MainReturn
    \/ PanicAbort

SpecExtract == InitExtract /\ [][NextExtract]_vars

(***************************************************************************)
(* Properties of the extractor.                                            *)
(***************************************************************************)
\* The positions of the file's address-bearing entities: nodes, ways and
\* relations whose tags hold both addr:housenumber and addr:street.
AddressBearing(f) ==
    {k \in DOMAIN f :
        /\ f[k].kind \in {"node", "way", "relation"}
        /\ f[k].tags.addr_housenumber # None
        /\ f[k].tags.addr_street # None}

\* The street and house number of the pool's address entities tell them apart.
AddressKey(t) == <<Unwrap(t.addr_street), Unwrap(t.addr_housenumber)>>

RecordsOf(f, k) ==
    {j \in DOMAIN out :
        <<out[j].street, out[j].housenumber>> = AddressKey(f[k].tags)}

\* C13: every address-bearing node, way or relation yields exactly one record
\* over pass_one followed by pass_two, or the run ends with an error naming an
\* entity; no entity yields two records and none is silently skipped.
C13_OneRecordPerAddressEntity ==
    /\ xpc # "panicked"
    /\ \A k \in AddressBearing(file) : Cardinality(RecordsOf(file, k)) <= 1
    /\ xpc = "done" =>
          /\ \A k \in AddressBearing(file) : Cardinality(RecordsOf(file, k)) = 1
          /\ Len(out) = Cardinality(AddressBearing(file))
    /\ xpc = "failed" =>
          /\ error # None
          /\ \E k \in DOMAIN file : file[k].id = Unwrap(error).arg

\* The integer mean of a non-empty list of integers, truncated toward zero:
\* the q of the sign of the sum with |q| * n <= |sum| < (|q| + 1) * n.
RECURSIVE Total(_)
Total(s) == IF s = <<>> THEN 0 ELSE s[1] + Total(Tail(s))

Abs(x) == IF x < 0 THEN 0 - x ELSE x

TruncatedMean(s) ==
    LET t == Total(s)
        n == Len(s)
        q == CHOOSE m \in 0..Abs(t) : m * n <= Abs(t) /\ Abs(t) < (m + 1) * n
    IN IF t < 0 THEN 0 - q ELSE q

TheNode(f, id) == CHOOSE e \in Range(f) : e.kind = "node" /\ e.id = id

\* The address-bearing entity of the given kind the running pass has just
\* handled without ending the run, if any.
JustHandled(pass, kind) ==
    /\ xpc = pass \/ (pass = "pass_two" /\ xpc = "done")
    /\ xpos - 1 \in AddressBearing(file)
    /\ file[xpos - 1].kind = kind

\* C14: the record emitted for an address-bearing way carries long = the mean
\* of the longitudes and lat = the mean of the latitudes of the nodes the way
\* references, each truncated toward zero.
C14_WayRecordCarriesMean ==
    JustHandled("pass_two", "way") =>
       LET way == file[xpos - 1]
           r == out[Len(out)]
       IN /\ r.long = TruncatedMean([k \in DOMAIN way.nodes |->
                                        TheNode(file, way.nodes[k]).lon])
          /\ r.lat = TruncatedMean([k \in DOMAIN way.nodes |->
                                       TheNode(file, way.nodes[k]).lat])

\* Whether the record carries the tags unchanged.
CarriesTags(r, t) ==
    /\ r.country = t.addr_country
    /\ r.city = t.addr_city
    /\ r.zip = t.addr_postcode
    /\ r.street = Unwrap(t.addr_street)
    /\ r.housenumber = Unwrap(t.addr_housenumber)

\* C15: every record emitted for an address-bearing node or way carries the
\* entity's tags unchanged: country = addr:country, city = addr:city, postcode
\* = addr:postcode (each absent exactly when the tag is), street = addr:street
\* and housenumber = addr:housenumber.
C15_RecordCarriesTags ==
    /\ JustHandled("pass_one", "node") =>
          CarriesTags(out[Len(out)], file[xpos - 1].tags)
    /\ JustHandled("pass_two", "way") =>
          CarriesTags(out[Len(out)], file[xpos - 1].tags)

\* C20: whenever a batch stage (parse or compress) ends with an error the
\* process exits with a non-zero status; it exits with status zero only when
\* the stage succeeded.
C20_ErrorExitsNonZero ==
    exit_status # None =>
       /\ (pc = "failed" \/ xpc = "failed") => Unwrap(exit_status) # 0
       /\ Unwrap(exit_status) = 0 => (pc = "dumped" \/ pc = "serving" \/ xpc = "done")

(***************************************************************************)
(* autofix.rs: is_unfixable and try_autofixing. An IncompleteAddress       *)
(* (parse.rs) is [country, city, postcode, street, housenumber], each an   *)
(* Option<String>.                                                         *)
(***************************************************************************)
\* IncompleteAddress::is_complete
is_complete(a) ==
    /\ IsSome(a.country) /\ IsSome(a.city) /\ IsSome(a.postcode)
    /\ IsSome(a.street) /\ IsSome(a.housenumber)

\* Mutant: one of country, city, postcode is taken to be enough.
is_unfixable_one_of_three(a) ==
    IF is_complete(a) THEN FALSE
    ELSE IF a.housenumber = None \/ a.street = None THEN TRUE
    ELSE IF Cardinality({k \in 1..3 : IsSome(<<a.country, a.city, a.postcode>>[k])}) >= 1
    THEN FALSE
    ELSE TRUE

\* is_unfixable
is_unfixable(a) ==
    IF is_complete(a) THEN FALSE
    ELSE IF a.housenumber = None \/ a.street = None THEN TRUE
    ELSE IF Cardinality({k \in 1..3 : IsSome(<<a.country, a.city, a.postcode>>[k])}) >= 2
    THEN FALSE
    ELSE TRUE

\* World::iter_countries and Country::iter_cities: the containers in stored
\* order.
iter_countries(w) == w.countries
iter_cities(co) == co.cities

RECURSIVE Flatten(_)
Flatten(ss) == IF ss = <<>> THEN <<>> ELSE ss[1] \o Flatten(Tail(ss))

\* The (country, city) pairs of the nested `for` loops, in iteration order,
\* that pass the test.
PairsWhere(w, Test(_, _)) ==
    Flatten([i \in DOMAIN iter_countries(w) |->
        LET co == iter_countries(w)[i]
            keep(ci) == Test(co, ci)
            hits == SelectSeq(iter_cities(co), keep)
        IN [j \in DOMAIN hits |-> [country |-> co, city |-> hits[j]]]])

\* Mutant: the first candidate is taken however many there are.
get_country_from_city_zip_first(w, city, zip) ==
    LET named(co, ci) == ci.name = city
        hosts(p) == IsSome(get_postal_area(p.city, Unwrap(zip)))
        all == PairsWhere(w, named)
        potential_countries == IF IsSome(zip) THEN SelectSeq(all, hosts) ELSE all
    IN IF Len(potential_countries) = 0 THEN None
       ELSE Some(potential_countries[1].country)

\* get_country_from_city_zip
get_country_from_city_zip(w, city, zip) ==
    LET named(co, ci) == ci.name = city
        hosts(p) == IsSome(get_postal_area(p.city, Unwrap(zip)))
        all == PairsWhere(w, named)
        potential_countries == IF IsSome(zip) THEN SelectSeq(all, hosts) ELSE all
    IN IF Len(potential_countries) = 1
       THEN Some(potential_countries[1].country)
       ELSE None

\* Mutant: the record's country code does not restrict the scan.
get_city_from_country_zip_any_country(w, country, zip) ==
    LET hosting(co, ci) == IsSome(get_postal_area(ci, zip))
        potential_cities == PairsWhere(w, hosting)
    IN IF Len(potential_cities) = 1
       THEN Some(potential_cities[1].city)
       ELSE None

\* get_city_from_country_zip
get_city_from_country_zip(w, country, zip) ==
    LET hosting(co, ci) ==
            /\ IsSome(country) => Unwrap(country) = co.code
            /\ IsSome(get_postal_area(ci, zip))
        potential_cities == PairsWhere(w, hosting)
    IN IF Len(potential_cities) = 1
       THEN Some(potential_cities[1].city)
       ELSE None

\* The catalog the autofixer consults: a World built by compress.
RECURSIVE Catalog(_)
Catalog(addrs) ==
    IF addrs = <<>> THEN World_new(<<s_Bach>>, <<>>)
    ELSE LET a == addrs[Len(addrs)]
         IN Unwrap(World_insert_address(Catalog(SubSeq(addrs, 1, Len(addrs) - 1)),
                a.country, a.city, a.postcode, a.street, a.housenumber))

Catalogs ==
    { Catalog(<<>>),
      Catalog(<< [country |-> s_DE, city |-> s_Berlin, postcode |-> s_10115,
                  street |-> s_Bach, housenumber |-> s_1],
                 [country |-> s_DE, city |-> s_Bonn, postcode |-> s_53111,
                  street |-> s_Bach, housenumber |-> s_1],
                 [country |-> s_AT, city |-> s_Berlin, postcode |-> s_10115,
                  street |-> s_Bach, housenumber |-> s_1],
                 [country |-> s_AT, city |-> s_berlin, postcode |-> s_00000,
                  street |-> s_Bach, housenumber |-> s_1],
                 [country |-> s_IN, city |-> s_Bonn, postcode |-> s_00000,
                  street |-> s_Bach, housenumber |-> s_1] >>) }

\* The incomplete records of the model: every pattern of present and missing
\* fields, the records without a country over all cities and postcodes, and
\* the records without a city over all countries and postcodes.
IncompleteRecords ==
    { Line(co, ci, po, st, hn) :
         co \in {None, Some(s_DE)}, ci \in {None, Some(s_Berlin)},
         po \in {None, Some(s_10115)}, st \in {None, Some(s_Bach)},
         hn \in {None, Some(s_1)} }
    \cup { Line(None, Some(ci), po, Some(s_Bach), Some(s_1)) :
         ci \in {s_Berlin, s_Bonn, s_berlin, s_Nowhere},
         po \in {None, Some(s_10115), Some(s_53111), Some(s_00000)} }
    \cup { Line(co, None, Some(po), Some(s_Bach), Some(s_1)) :
         co \in {None, Some(s_DE), Some(s_AT), Some(s_de)},
         po \in {s_10115, s_53111, s_00000} }

IncompleteLists ==
    UNION {[1..n -> IncompleteRecords] : n \in 0..MaxIncomplete}

\* try_autofixing(w, incomplete_addresses) is called.
InitAutofix ==
    /\ pc = "off" /\ addresses = <<>> /\ streets = {}
    /\ uncompressable_house_numbers = {}
    /\ world \in Catalogs
    /\ compress_i = 0 /\ fed = {}
    /\ request = NoRequest /\ response = NoResponse
    /\ text = None
    /\ ExtractOff
    /\ incomplete_addresses \in IncompleteLists
    /\ fixed = <<>> /\ unfixable = <<>> /\ popped = None
    /\ input = incomplete_addresses /\ requeues = 0
    /\ afpc = "running"
    /\ exit_status = None
    /\ OthersOff

\* Mutant: the record that got its country is pushed back without its city.
AutofixStep_country_drops_city ==
    /\ afpc = "running" /\ incomplete_addresses # <<>>
    /\ LET a == incomplete_addresses[Len(incomplete_addresses)]
           rest == SubSeq(incomplete_addresses, 1, Len(incomplete_addresses) - 1)
       IN /\ popped' = Some(a)
          /\ IF is_complete(a)
             THEN /\ fixed' = Append(fixed,
                         [country |-> Unwrap(a.country), city |-> Unwrap(a.city),
                          postcode |-> Unwrap(a.postcode), street |-> Unwrap(a.street),
                          housenumber |-> Unwrap(a.housenumber)])
                  /\ incomplete_addresses' = rest
                  /\ UNCHANGED unfixable
             ELSE IF a.country = None /\ IsSome(a.city)
             THEN LET country == get_country_from_city_zip(world, Unwrap(a.city),
                                                           a.postcode)
                  IN IF country = None
                     THEN /\ unfixable' = Append(unfixable, a)
                          /\ incomplete_addresses' = rest
                          /\ UNCHANGED fixed
                     ELSE /\ incomplete_addresses' =
                                Append(rest, [a EXCEPT !.country =
                                                 Some(Unwrap(country).code),
                                              !.city = None])
                          /\ UNCHANGED <<fixed, unfixable>>
             ELSE IF a.city = None /\ IsSome(a.postcode)
             THEN LET city == get_city_from_country_zip(world, a.country,
                                                        Unwrap(a.postcode))
                  IN IF city = None
                     THEN /\ unfixable' = Append(unfixable, a)
                          /\ incomplete_addresses' = rest
                          /\ UNCHANGED fixed
                     ELSE /\ incomplete_addresses' =
                                Append(rest, [a EXCEPT !.city =
                                                 Some(Unwrap(city).name)])
                          /\ UNCHANGED <<fixed, unfixable>>
             ELSE /\ incomplete_addresses' = rest
                  /\ UNCHANGED <<fixed, unfixable>>
          /\ requeues' = IF Len(incomplete_addresses') = Len(incomplete_addresses)
                          THEN requeues + 1 ELSE 0
    /\ UNCHANGED <<input, afpc>>
    /\ UNCHANGED <<compress_vars, extract_vars, exit_status, other_vars>>

\* try_autofixing: one turn of `while let Some(..) = incomplete_addresses.pop()`.
AutofixStep ==
    /\ afpc = "running" /\ incomplete_addresses # <<>>
    /\ LET a == incomplete_addresses[Len(incomplete_addresses)]
           rest == SubSeq(incomplete_addresses, 1, Len(incomplete_addresses) - 1)
       IN /\ popped' = Some(a)
          /\ IF is_complete(a)
             THEN /\ fixed' = Append(fixed,
                         [country |-> Unwrap(a.country), city |-> Unwrap(a.city),
                          postcode |-> Unwrap(a.postcode), street |-> Unwrap(a.street),
                          housenumber |-> Unwrap(a.housenumber)])
                  /\ incomplete_addresses' = rest
                  /\ UNCHANGED unfixable
             ELSE IF a.country = None /\ IsSome(a.city)
             THEN LET country == get_country_from_city_zip(world, Unwrap(a.city),
                                                           a.postcode)
                  IN IF country = None
                     THEN /\ unfixable' = Append(unfixable, a)
                          /\ incomplete_addresses' = rest
                          /\ UNCHANGED fixed
                     ELSE /\ incomplete_addresses' =
                                Append(rest, [a EXCEPT !.country =
                                                 Some(Unwrap(country).code)])
                          /\ UNCHANGED <<fixed, unfixable>>
             ELSE IF a.city = None /\ IsSome(a.postcode)
             THEN LET city == get_city_from_country_zip(world, a.country,
                                                        Unwrap(a.postcode))
                  IN IF city = None
                     THEN /\ unfixable' = Append(unfixable, a)
                          /\ incomplete_addresses' = rest
                          /\ UNCHANGED fixed
                     ELSE /\ incomplete_addresses' =
                                Append(rest, [a EXCEPT !.city =
                                                 Some(Unwrap(city).name)])
                          /\ UNCHANGED <<fixed, unfixable>>
             ELSE /\ incomplete_addresses' = rest
                  /\ UNCHANGED <<fixed, unfixable>>
          /\ requeues' = IF Len(incomplete_addresses') = Len(incomplete_addresses)
                          THEN requeues + 1 ELSE 0
    /\ UNCHANGED <<input, afpc>>
    /\ UNCHANGED <<compress_vars, extract_vars, exit_status, other_vars>>

\* try_autofixing returns (fixed, unfixable).
AutofixReturn ==
    /\ afpc = "running" /\ incomplete_addresses = <<>>
    /\ afpc' = "done"
    /\ UNCHANGED <<incomplete_addresses, fixed, unfixable, popped, input, requeues>>
    /\ UNCHANGED <<compress_vars, extract_vars, exit_status, other_vars>>

NextAutofix ==
    \/ AutofixStep
    \/ AutofixReturn

SpecAutofix == InitAutofix /\ [][NextAutofix]_vars

\* try_autofixing as the one thread that runs it executes it: the loop takes
\* its next turn, and the function returns when the stack is empty.
SpecAutofixFair == SpecAutofix /\ WF_vars(NextAutofix)

(***************************************************************************)
(* Properties of the autofixer.                                            *)
(***************************************************************************)
\* Whether city ci of the catalog hosts the postcode (as the lookups of the
\* service match it, letter case aside).
Hosts(ci, zip) == \E a \in Range(ci.areas) : SameUpToCase(a.code, zip)

\* The positions of the catalog's countries that contain a city of that name
\* which, when a postcode is given, hosts the postcode.
CountryCandidates(w, city, zip) ==
    {i \in DOMAIN w.countries :
        \E ci \in Range(w.countries[i].cities) :
            /\ ci.name = city
            /\ zip # None => Hosts(ci, Unwrap(zip))}

\* The loop of try_autofixing has just handled record p.
Handled(p) == afpc = "running" /\ popped = Some(p)

Top(stack) == stack[Len(stack)]

\* C16: a record with no country and a known city is assigned a country iff
\* exactly one country of the catalog contains a city of that name (hosting the
\* record's postcode when it has one); otherwise it is returned as unfixable
\* with its fields unchanged.
C16_CountryIffOneCandidate ==
    \A p \in IncompleteRecords :
       (Handled(p) /\ p.country = None /\ p.city # None) =>
          LET cands == CountryCandidates(world, Unwrap(p.city), p.postcode)
          IN IF Cardinality(cands) = 1
             THEN /\ incomplete_addresses # <<>>
                  /\ Top(incomplete_addresses) =
                        [p EXCEPT !.country =
                            Some(world.countries[CHOOSE i \in cands : TRUE].code)]
                  /\ unfixable = <<>> \/ Top(unfixable) # p
             ELSE /\ unfixable # <<>>
                  /\ Top(unfixable) = p

\* C16 witness: Bonn lies in two countries of the catalog, the postcode 53111
\* leaves one, and the record went back on the stack with country DE.
C16_Witness ==
    /\ Handled(Line(None, Some(s_Bonn), Some(s_53111), Some(s_Bach), Some(s_1)))
    /\ Cardinality(CountryCandidates(world, s_Bonn, None)) = 2
    /\ incomplete_addresses # <<>>
    /\ Top(incomplete_addresses).country = Some(s_DE)

\* The (country, city) pairs of the catalog whose city hosts the postcode,
\* within the record's country when it names one.
CityCandidates(w, country, zip) ==
    {pr \in {<<i, j>> : i \in DOMAIN w.countries, j \in 1..MaxPairs} :
        /\ pr[2] \in DOMAIN w.countries[pr[1]].cities
        /\ country # None => w.countries[pr[1]].code = Unwrap(country)
        /\ Hosts(w.countries[pr[1]].cities[pr[2]], zip)}

\* C17: a record with no city and a known postcode is assigned a city iff
\* exactly one (country, city) pair of the catalog hosts the postcode, counting
\* only pairs of the record's country when it has a country code; otherwise it
\* is returned as unfixable with its fields unchanged.
C17_CityIffOnePair ==
    \A p \in IncompleteRecords :
       (Handled(p) /\ p.city = None /\ p.postcode # None) =>
          LET cands == CityCandidates(world, p.country, Unwrap(p.postcode))
              the == CHOOSE pr \in cands : TRUE
          IN IF Cardinality(cands) = 1
             THEN /\ incomplete_addresses # <<>>
                  /\ Top(incomplete_addresses) =
                        [p EXCEPT !.city =
                            Some(world.countries[the[1]].cities[the[2]].name)]
                  /\ unfixable = <<>> \/ Top(unfixable) # p
             ELSE /\ unfixable # <<>>
                  /\ Top(unfixable) = p

\* C17 witness: postcode 10115 is hosted in DE and in AT, the record's country
\* DE leaves one pair, and the record went back on the stack with city Berlin.
C17_Witness ==
    /\ Handled(Line(Some(s_DE), None, Some(s_10115), Some(s_Bach), Some(s_1)))
    /\ Cardinality(CityCandidates(world, None, s_10115)) = 2
    /\ incomplete_addresses # <<>>
    /\ Top(incomplete_addresses).city = Some(s_Berlin)

\* How many of country, city, postcode a record has.
OfThree(p) ==
    (IF p.country # None THEN 1 ELSE 0) + (IF p.city # None THEN 1 ELSE 0)
    + (IF p.postcode # None THEN 1 ELSE 0)

\* Whether record p, just handled, went to fixed or unfixable or back on the
\* stack with one more field.
Resolved(p) ==
    \/ /\ fixed # <<>>
       /\ Some(Top(fixed).country) = p.country /\ Some(Top(fixed).city) = p.city
       /\ Some(Top(fixed).postcode) = p.postcode
       /\ Some(Top(fixed).street) = p.street
       /\ Some(Top(fixed).housenumber) = p.housenumber
    \/ unfixable # <<>> /\ Top(unfixable) = p
    \/ /\ incomplete_addresses # <<>>
       /\ OfThree(Top(incomplete_addresses)) = OfThree(p) + 1
       /\ \/ Top(incomplete_addresses) =
                [p EXCEPT !.country = Top(incomplete_addresses).country]
          \/ Top(incomplete_addresses) =
                [p EXCEPT !.city = Top(incomplete_addresses).city]

\* C18: is_unfixable is true exactly for records that miss street or
\* housenumber or have fewer than two of country, city, postcode; and every
\* record it reports as fixable is one try_autofixing resolves: it ends in
\* fixed or unfixable.
C18_FixableIsResolved ==
    \A p \in IncompleteRecords :
       /\ is_unfixable(p) <=>
             (p.street = None \/ p.housenumber = None \/ OfThree(p) < 2)
       /\ (Handled(p) /\ ~is_unfixable(p)) => Resolved(p)

(***************************************************************************)
(* Properties of the country-code normalization.                           *)
(***************************************************************************)
\* The entries of the table whose code, English short name or local short
\* name is the string.
WithCode(c) == {k \in DOMAIN ALL_CODES : ALL_CODES[k].code = c}
WithEnglishName(c) == {k \in DOMAIN ALL_CODES : ALL_CODES[k].short_name = c}
WithLocalName(c) ==
    {k \in DOMAIN ALL_CODES : ALL_CODES[k].local_short_name = Some(c)}

CodeOf(entries) == ALL_CODES[CHOOSE k \in entries : TRUE].code

\* The normal form the claim gives a country string.
Normalized(c) ==
    IF WithCode(c) # {} THEN c
    ELSE IF WithEnglishName(c) # {} THEN CodeOf(WithEnglishName(c))
    ELSE IF WithLocalName(c) # {} THEN CodeOf(WithLocalName(c))
    ELSE c

out_inc_addr_coord(elem) ==
    [country |-> elem.country, city |-> elem.city, zip |-> elem.zip,
     street |-> Some(elem.street), housenumber |-> Some(elem.housenumber),
     long |-> elem.long, lat |-> elem.lat]

\* The string the JSON object has at a key: None when the key is missing or
\* its value is null.
json_string(object, key) ==
    IF key \in DOMAIN object THEN object[key] ELSE None

\* serde_json::from_str::<Address>(text): the five fields of Address, read
\* by name; keys Address does not have are skipped.
from_str_Address(object) ==
    Line(json_string(object, "country"), json_string(object, "city"),
         json_string(object, "postcode"), json_string(object, "street"),
         json_string(object, "housenumber"))

\* C21: every line the extractor has written is a line iter_items yields an
\* address for, whichever of country, city and postcode the entity carried.
C21_BuilderAcceptsExtractorLines ==
    \A j \in DOMAIN out :
        IsSome(iter_items(from_str_Address(out_inc_addr_coord(out[j]))))

\* The nodes pass_two has read so far.
NodesRead ==
    {file[k] : k \in {j \in 1..(xpos - 1) : file[j].kind = "node"}}

\* C23: pass_two stores the coordinates of exactly the nodes it has read whose
\* id pass_one put in node_ids_required_by_ways, whatever their tags; an
\* address way whose nodes are all stored yields a record; the error is
\* returned only for a way with a node that is not stored.
C23_PassTwoStoresRequiredNodes ==
    /\ xpc \in {"pass_two", "done"} =>
          /\ DOMAIN node_coordinates =
                {n.id : n \in {e \in NodesRead :
                                  e.id \in node_ids_required_by_ways}}
          /\ \A n \in NodesRead :
                n.id \in DOMAIN node_coordinates =>
                   node_coordinates[n.id] = <<n.lon, n.lat>>
    /\ JustHandled("pass_two", "way") =>
          /\ Range(file[xpos - 1].nodes) \subseteq DOMAIN node_coordinates
          /\ out # <<>>
          /\ <<out[Len(out)].street, out[Len(out)].housenumber>> =
                AddressKey(file[xpos - 1].tags)
    /\ (xpc = "failed" /\ error # None /\ Unwrap(error).text # "{:?}") =>
          /\ file[xpos - 1].kind = "way"
          /\ ~(Range(file[xpos - 1].nodes) \subseteq DOMAIN node_coordinates)

\* C30: the World compress dumps does not depend on the order of the input
\* records: inserting the records fed in any order into an empty World with
\* the same root tables and sorting it gives the World that was built.
C30_WorldIndependentOfOrder ==
    Built =>
       \A p \in Orderings(fed) :
          World_sort(InsertAll(World_new(world.unique_streets,
                                         world.housenumbers), p))
             = Some(world)

\* C30 witness: a World was dumped whose records, inserted in two different
\* orders, give two different Worlds before the sort.
C30_Witness ==
    /\ Built
    /\ \E p, q \in Orderings(fed) :
          InsertAll(World_new(world.unique_streets, world.housenumbers), p)
             # InsertAll(World_new(world.unique_streets, world.housenumbers), q)

\* C26: try_autofixing returns on every input list and catalog; a record is
\* pushed back at most twice, so it is popped at most three times.
C26_AutofixTerminates ==
    /\ <>(afpc = "done")
    /\ [](requeues <= 2)

\* C26 witness: the record on top of the stack has been pushed back twice,
\* first with the city found for its postcode, then with the country.
C26_Witness ==
    /\ afpc = "running" /\ requeues = 2
    /\ incomplete_addresses # <<>>
    /\ is_complete(Top(incomplete_addresses))

\* C27: try_autofixing loses no record: the lists it returns hold as many
\* records as its input, and every fixed address agrees with a record of the
\* input on each field that record had.
C27_NoRecordLost ==
    afpc = "done" =>
       /\ Len(fixed) + Len(unfixable) = Len(input)
       /\ \A k \in DOMAIN fixed : \E j \in DOMAIN input :
             \A f \in {"country", "city", "postcode", "street", "housenumber"} :
                input[j][f] # None => input[j][f] = Some(fixed[k][f])

(***************************************************************************)
(* The progress-tracking readers: VerboseReader (verbose_reader.rs) and    *)
(* CountingReader (parse_coordinates.rs) around a seekable file.           *)
(***************************************************************************)
\* i64::MAX at the width the model gives usize (USIZE_MAX), and the `as`
\* casts between the two: two's complement reinterpretation.
I64_MAX == 1073741823
as_usize(v) == IF v < 0 THEN (USIZE_MAX + v) + 1 ELSE v
as_i64(u) == IF u > I64_MAX THEN (u - USIZE_MAX) - 1 ELSE u

\* std::io::SeekFrom
SeekFrom_Start(s) == [whence |-> "Start", n |-> s]
SeekFrom_End(e) == [whence |-> "End", n |-> e]
SeekFrom_Current(c) == [whence |-> "Current", n |-> c]

\* The positions a caller asks for.
SeekFroms ==
    {SeekFrom_Start(s) : s \in 0..MaxSeekOffset}
    \cup {SeekFrom_End(e) : e \in (0 - MaxSeekOffset)..MaxSeekOffset}
    \cup {SeekFrom_Current(c) : c \in (0 - MaxSeekOffset)..MaxSeekOffset}

\* The wrapped reader's seek: the offset asked for, counted from the start,
\* the end or the current offset; Err and no move when it is negative.
inner_seek(r, pos) ==
    LET target == CASE pos.whence = "Start" -> pos.n
                    [] pos.whence = "End" -> r.len + pos.n
                    [] pos.whence = "Current" -> r.pos + pos.n
    IN IF target < 0 THEN [ok |-> FALSE, inner |-> r]
       ELSE [ok |-> TRUE, inner |-> [r EXCEPT !.pos = target]]

\* The counts the wrapped reader's read can return for a buffer of buf bytes:
\* 0 at or past the end of the file, else at least one byte and no more than
\* the buffer or the rest of the file holds.
inner_read(r, buf) ==
    IF r.pos >= r.len THEN {0} ELSE 1..Min(buf, r.len - r.pos)

\* VerboseReader::increase; `+=` on usize panics on overflow in a build with
\* overflow checks and wraps in one without.
VerboseReader_increase(fast, count, slow, increase) ==
    LET overflow == fast > USIZE_MAX - increase
        sum == IF overflow THEN ((fast - USIZE_MAX) + increase) - 1
               ELSE fast + increase
    IN IF overflow /\ overflow_checks
       THEN [panic |-> TRUE, position_fast |-> fast, update_count |-> count,
             position_slow |-> slow]
       ELSE IF (count + 1) % 50 = 0
       THEN [panic |-> FALSE, position_fast |-> sum, update_count |-> 0,
             position_slow |-> sum]
       ELSE [panic |-> FALSE, position_fast |-> sum, update_count |-> count + 1,
             position_slow |-> slow]

\* CountingReader::increase
CountingReader_increase(fast, count, slow, increase) ==
    IF (count + 1) % 250 = 0
    THEN [count_fast |-> fast + increase, count_count |-> 0,
          count_slow |-> fast + increase]
    ELSE [count_fast |-> fast + increase, count_count |-> count + 1,
          count_slow |-> slow]

\* VerboseReader::seek: the position it assigns before it seeks the inner
\* reader.
VerboseReader_seek_position(fast, size, pos) ==
    CASE pos.whence = "Start" -> as_usize(pos.n)
      [] pos.whence = "End" -> as_usize(as_i64(size) - pos.n)
      [] pos.whence = "Current" -> as_usize(as_i64(fast) + pos.n)

\* VerboseReader::new(inner, filesize) or CountingReader::new(reader) around
\* a file opened at offset 0; filesize is the length of the file.
InitReader ==
    /\ CompressOff /\ ExtractOff /\ AutofixOff /\ exit_status = None
    /\ PrinterOff /\ HandlersOff
    /\ rpc \in {"verbose", "counting"}
    /\ overflow_checks \in BOOLEAN
    /\ inner \in {[len |-> n, pos |-> 0] : n \in 1..MaxFileSize}
    /\ filesize = IF rpc = "verbose" THEN inner.len ELSE 0
    /\ position_fast = 0 /\ update_count = 0 /\ position_slow = 0 /\ seek_count = 0
    /\ count_fast = 0 /\ count_count = 0 /\ count_slow = 0
    /\ bytes_read = 0 /\ seeks = 0 /\ sought = None

\* <VerboseReader as Read>::read returning Ok(count).
VerboseRead ==
    /\ rpc = "verbose"
    /\ \E buf \in 1..MaxBuf : \E count \in inner_read(inner, buf) :
          LET inc == VerboseReader_increase(position_fast, update_count,
                                            position_slow, count)
          IN /\ inner' = [inner EXCEPT !.pos = @ + count]
             /\ bytes_read' = bytes_read + count
             /\ rpc' = IF inc.panic THEN "panicked" ELSE rpc
             /\ position_fast' = inc.position_fast
             /\ update_count' = inc.update_count
             /\ position_slow' = inc.position_slow
    /\ sought' = None
    /\ UNCHANGED <<overflow_checks, filesize, seek_count, count_fast, count_count,
                   count_slow, seeks>>
    /\ UNCHANGED <<compress_vars, extract_vars, autofix_vars, exit_status, printer_vars,
                   handler_vars>>

\* <VerboseReader as Seek>::seek
VerboseSeek ==
    /\ rpc = "verbose" /\ seeks < MaxSeeks
    /\ \E pos \in SeekFroms :
          LET res == inner_seek(inner, pos)
          IN /\ position_fast' = VerboseReader_seek_position(position_fast, filesize, pos)
             /\ seek_count' = seek_count + 1
             /\ inner' = res.inner
             /\ sought' = Some([pos |-> pos, ok |-> res.ok])
    /\ seeks' = seeks + 1
    /\ UNCHANGED <<rpc, overflow_checks, filesize, update_count, position_slow,
                   count_fast, count_count, count_slow, bytes_read>>
    /\ UNCHANGED <<compress_vars, extract_vars, autofix_vars, exit_status, printer_vars,
                   handler_vars>>

\* <CountingReader as Read>::read returning Ok(b).
CountingRead ==
    /\ rpc = "counting"
    /\ \E buf \in 1..MaxBuf : \E b \in inner_read(inner, buf) :
          LET inc == CountingReader_increase(count_fast, count_count, count_slow, b)
          IN /\ inner' = [inner EXCEPT !.pos = @ + b]
             /\ bytes_read' = bytes_read + b
             /\ count_fast' = inc.count_fast
             /\ count_count' = inc.count_count
             /\ count_slow' = inc.count_slow
    /\ sought' = None
    /\ UNCHANGED <<rpc, overflow_checks, filesize, position_fast, update_count,
                   position_slow, seek_count, seeks>>
    /\ UNCHANGED <<compress_vars, extract_vars, autofix_vars, exit_status, printer_vars,
                   handler_vars>>

\* <CountingReader as Seek>::seek
CountingSeek ==
    /\ rpc = "counting" /\ seeks < MaxSeeks
    /\ \E pos \in SeekFroms :
          LET res == inner_seek(inner, pos)
          IN /\ count_fast' = 0
             /\ count_count' = 0
             /\ inner' = res.inner
             /\ sought' = Some([pos |-> pos, ok |-> res.ok])
    /\ seeks' = seeks + 1
    /\ UNCHANGED <<rpc, overflow_checks, filesize, position_fast, update_count,
                   position_slow, seek_count, count_slow, bytes_read>>
    /\ UNCHANGED <<compress_vars, extract_vars, autofix_vars, exit_status, printer_vars,
                   handler_vars>>

NextReader ==
    \/ VerboseRead
    \/ VerboseSeek
    \/ CountingRead
    \/ CountingSeek

SpecReader == InitReader /\ [][NextReader]_vars

\* The byte count the reader in use tracks, and the count its reporter sees.
TrackedCount == IF rpc = "counting" THEN count_fast ELSE position_fast
ReportedCount == IF rpc = "counting" THEN count_slow ELSE position_slow

\* C24: no call on a progress-tracking reader resets or lowers its byte
\* counter: the count is the total of the bytes all reads have returned, over
\* every pass, and a seek leaves it as it is.
C24_SeekKeepsByteCount ==
    rpc \in {"verbose", "counting"} =>
       /\ TrackedCount = bytes_read
       /\ ReportedCount <= bytes_read

\* C29: after a successful seek the position VerboseReader tracks is the
\* offset of the inner reader, and lies within 0..filesize when that does.
C29_SeekTracksOffset ==
    (rpc = "verbose" /\ sought # None /\ Unwrap(sought).ok) =>
       /\ position_fast = inner.pos
       /\ inner.pos \in 0..filesize => position_fast \in 0..filesize

(***************************************************************************)
(* VerboseReaderManager: start_printing, stop_printing and the printing    *)
(* threads, called from the threads that hold a clone of the manager.      *)
(***************************************************************************)
\* kill_receiver.recv_timeout(interval) on the channel of a printing thread:
\* a message sent is received, else a dropped sender disconnects, else the
\* interval passes.
recv_timeout(thread) ==
    IF thread.message THEN "Ok"
    ELSE IF ~thread.sender THEN "Disconnected"
    ELSE "Timeout"

\* Mutant: the loop goes on for every Err, a disconnected channel included.
printing_thread_loops_on_err(received) == received # "Ok"

\* printing_thread: `while let Err(RecvTimeoutError::Timeout) = ..` goes on.
printing_thread_loops(received) == received = "Timeout"

\* The thread a spawn creates: the first not spawned yet.
NextThread == CHOOSE t \in Threads :
                 /\ threads[t].state = "unspawned"
                 /\ \A u \in Threads : threads[u].state = "unspawned" => t <= u

\* The guard of output_thread is held by nobody (Some(0): poisoned).
Free == mutex = None
Poisoned == mutex = Some(0)

\* VerboseReader::new returned the manager; the callers hold clones of it.
\* The guard `{ self.output_thread.lock().unwrap().take() }` creates is
\* dropped at the end of the block or at the end of the function, by edition.
InitPrinter ==
    /\ CompressOff /\ ExtractOff /\ AutofixOff /\ exit_status = None
    /\ ReaderOff /\ HandlersOff
    /\ output_thread = None /\ mutex = None
    /\ guard_scope \in {"block", "function"}
    /\ callers = [c \in Callers |-> [pc |-> "idle", call |-> "none", alone |-> TRUE,
                                     join_handle |-> None, taken |-> None]]
    /\ threads = [t \in Threads |-> [state |-> "unspawned", sender |-> FALSE,
                                     message |-> FALSE, lines |-> 0]]
    /\ calls = 0 /\ stopped = {} /\ last_returned = [call |-> "none", alone |-> TRUE]

PrinterRest ==
    UNCHANGED <<compress_vars, extract_vars, autofix_vars, exit_status, reader_vars,
                handler_vars, guard_scope>>

\* callers once c has made a call; history: whether the call is the only one
\* under way from its first step to its return.
Called(c, call, pc0) ==
    [d \in Callers |->
        IF d = c
        THEN [callers[c] EXCEPT !.pc = pc0, !.call = call,
                                !.alone = \A e \in Callers \ {c} :
                                             callers[e].pc = "idle"]
        ELSE IF callers[d].pc = "idle" THEN callers[d]
        ELSE [callers[d] EXCEPT !.alone = FALSE]]

\* A caller calls start_printing.
CallStart(c) ==
    /\ callers[c].pc = "idle" /\ calls < MaxCalls
    /\ callers' = Called(c, "start_printing", "spawn")
    /\ calls' = calls + 1
    /\ UNCHANGED <<output_thread, mutex, threads, stopped, last_returned>>
    /\ PrinterRest

\* A caller calls stop_printing.
CallStop(c) ==
    /\ callers[c].pc = "idle" /\ calls < MaxCalls
    /\ callers' = Called(c, "stop_printing", "take")
    /\ calls' = calls + 1
    /\ UNCHANGED <<output_thread, mutex, threads, stopped, last_returned>>
    /\ PrinterRest

\* start_printing: channel(), self.clone(), spawn; then it calls
\* self.stop_printing().
Spawn(c) ==
    /\ callers[c].pc = "spawn"
    /\ threads' = [threads EXCEPT ![NextThread] =
                      [state |-> "running", sender |-> TRUE, message |-> FALSE,
                       lines |-> 0]]
    /\ callers' = [callers EXCEPT ![c].pc = "take",
                                  ![c].join_handle = Some(NextThread)]
    /\ UNCHANGED <<output_thread, mutex, calls, stopped, last_returned>>
    /\ PrinterRest

\* stop_printing: self.output_thread.lock().unwrap().take()
TakeHandle(c) ==
    /\ callers[c].pc = "take"
    /\ IF Poisoned
       THEN /\ callers' = [callers EXCEPT ![c].pc = "panicked"]
            /\ UNCHANGED <<output_thread, mutex>>
       ELSE /\ Free
            /\ output_thread' = None
            /\ mutex' = IF guard_scope = "function" THEN Some(c) ELSE None
            /\ callers' = [callers EXCEPT
                              ![c].taken = output_thread,
                              ![c].pc = IF output_thread = None THEN "return"
                                        ELSE "send"]
    /\ UNCHANGED <<threads, calls, stopped, last_returned>>
    /\ PrinterRest

\* stop_printing: killer.send(()).unwrap(); Err, and the panic, when the
\* receiver is gone.
Send(c) ==
    /\ callers[c].pc = "send"
    /\ LET t == Unwrap(callers[c].taken)
       IN IF threads[t].state = "exited"
          THEN /\ callers' = [callers EXCEPT ![c].pc = "panicked"]
               /\ mutex' = IF mutex = Some(c) THEN Some(0) ELSE mutex
               /\ UNCHANGED threads
          ELSE /\ threads' = [threads EXCEPT ![t].message = TRUE]
               /\ callers' = [callers EXCEPT ![c].pc = "join"]
               /\ UNCHANGED mutex
    /\ UNCHANGED <<output_thread, calls, stopped, last_returned>>
    /\ PrinterRest

\* stop_printing: join_handle.join().unwrap() returns once the thread ended.
Join(c) ==
    /\ callers[c].pc = "join"
    /\ threads[Unwrap(callers[c].taken)].state = "exited"
    /\ callers' = [callers EXCEPT ![c].pc = "return"]
    /\ UNCHANGED <<output_thread, mutex, threads, calls, stopped, last_returned>>
    /\ PrinterRest

\* stop_printing: the guard that lived to the end of the function is dropped.
DropGuard(c) ==
    /\ callers[c].pc = "return"
    /\ mutex = Some(c)
    /\ mutex' = None
    /\ UNCHANGED <<output_thread, callers, threads, calls, stopped, last_returned>>
    /\ PrinterRest

\* stop_printing returns, to its caller or to start_printing.
Return(c) ==
    /\ callers[c].pc = "return"
    /\ mutex # Some(c)
    /\ UNCHANGED mutex
    /\ stopped' = stopped \cup Range(callers[c].taken)
    /\ IF callers[c].call = "stop_printing"
       THEN /\ callers' = [callers EXCEPT ![c].pc = "idle", ![c].call = "none",
                                          ![c].taken = None]
            /\ last_returned' = [call |-> "stop_printing",
                                  alone |-> callers[c].alone]
       ELSE /\ callers' = [callers EXCEPT ![c].pc = "insert", ![c].taken = None]
            /\ UNCHANGED last_returned
    /\ UNCHANGED <<output_thread, threads, calls>>
    /\ PrinterRest

\* Mutant: a value that was there is kept alive, its sender with it.
Insert_keeps_sender(c) ==
    /\ callers[c].pc = "insert"
    /\ IF Poisoned
       THEN /\ callers' = [callers EXCEPT ![c].pc = "panicked"]
            /\ UNCHANGED <<output_thread, threads, last_returned>>
       ELSE /\ Free
            /\ output_thread' = callers[c].join_handle
            /\ threads' = threads
            /\ callers' = [callers EXCEPT ![c].pc = "idle", ![c].call = "none",
                                          ![c].join_handle = None]
            /\ last_returned' = [call |-> "start_printing",
                                  alone |-> callers[c].alone]
    /\ UNCHANGED <<mutex, calls, stopped>>
    /\ PrinterRest

\* start_printing: self.output_thread.lock().unwrap().insert((join_handle,
\* send)), and its return; a value that was there is dropped, its sender with
\* it.
Insert(c) ==
    /\ callers[c].pc = "insert"
    /\ IF Poisoned
       THEN /\ callers' = [callers EXCEPT ![c].pc = "panicked"]
            /\ UNCHANGED <<output_thread, threads, last_returned>>
       ELSE /\ Free
            /\ output_thread' = callers[c].join_handle
            /\ threads' = [t \in Threads |->
                              IF output_thread = Some(t)
                              THEN [threads[t] EXCEPT !.sender = FALSE]
                              ELSE threads[t]]
            /\ callers' = [callers EXCEPT ![c].pc = "idle", ![c].call = "none",
                                          ![c].join_handle = None]
            /\ last_returned' = [call |-> "start_printing",
                                  alone |-> callers[c].alone]
    /\ UNCHANGED <<mutex, calls, stopped>>
    /\ PrinterRest

\* printing_thread: recv_timeout timed out and the loop logs a progress line.
ThreadLog(t) ==
    /\ threads[t].state = "running"
    /\ printing_thread_loops(recv_timeout(threads[t]))
    /\ threads[t].lines < MaxLines
    /\ threads' = [threads EXCEPT ![t].lines = @ + 1]
    /\ UNCHANGED <<output_thread, mutex, callers, calls, stopped, last_returned>>
    /\ PrinterRest

\* printing_thread: the loop ends and the thread with it.
ThreadExit(t) ==
    /\ threads[t].state = "running"
    /\ ~printing_thread_loops(recv_timeout(threads[t]))
    /\ threads' = [threads EXCEPT ![t].state = "exited", ![t].message = FALSE]
    /\ UNCHANGED <<output_thread, mutex, callers, calls, stopped, last_returned>>
    /\ PrinterRest

\* The steps of a call under way by caller c.
CallerStep(c) ==
    \/ Spawn(c) \/ TakeHandle(c) \/ Send(c) \/ Join(c)
    \/ DropGuard(c) \/ Return(c) \/ Insert(c)

NextPrinter ==
    \/ \E c \in Callers : CallStart(c)
    \/ \E c \in Callers : CallStop(c)
    \/ \E c \in Callers : Spawn(c)
    \/ \E c \in Callers : TakeHandle(c)
    \/ \E c \in Callers : Send(c)
    \/ \E c \in Callers : Join(c)
    \/ \E c \in Callers : DropGuard(c)
    \/ \E c \in Callers : Return(c)
    \/ \E c \in Callers : Insert(c)
    \/ \E t \in Threads : ThreadLog(t)
    \/ \E t \in Threads : ThreadExit(t)

SpecPrinter == InitPrinter /\ [][NextPrinter]_vars

\* Every thread the scheduler runs goes on: a call under way takes its next
\* step, and a printing thread whose recv_timeout returned leaves its loop.
SpecPrinterFair ==
    /\ SpecPrinter
    /\ \A c \in Callers : WF_vars(CallerStep(c))
    /\ \A t \in Threads : WF_vars(ThreadExit(t))

\* C25: once stop_printing has taken a registered printing thread, the thread
\* leaves its loop and stop_printing returns after joining it; after that
\* return the thread logs no further line; and a printing thread whose kill
\* sender is dropped ends as well.
C25_StopEndsPrinting ==
    /\ \A c \in Callers : \A t \in Threads :
          (callers[c].pc = "send" /\ callers[c].taken = Some(t))
             ~> (threads[t].state = "exited" /\ t \in stopped)
    /\ [][\A t \in stopped : /\ threads'[t].lines = threads[t].lines
                             /\ threads'[t].state = "exited"]_vars
    /\ \A t \in Threads :
          (threads[t].state = "running" /\ ~threads[t].sender)
             ~> (threads[t].state = "exited")

\* C25 witness: a printing thread logged a line, was taken by a stop_printing
\* that has returned, and has ended.
C25_Witness ==
    \E t \in stopped : threads[t].lines > 0 /\ threads[t].state = "exited"

\* The printing threads that go on running: no kill message is on its way
\* and the sender is alive.
KeepRunning ==
    {t \in Threads : threads[t].state = "running"
                     /\ printing_thread_loops(recv_timeout(threads[t]))}

AllReturned == \A c \in Callers : callers[c].pc = "idle"

\* C28: once every call of start_printing and stop_printing on the manager
\* and its clones has returned, at most one printing thread goes on running,
\* and none when the call that returned last is a stop_printing.
C28_AtMostOnePrinter ==
    AllReturned =>
       /\ Cardinality(KeepRunning) <= 1
       /\ last_returned.call = "stop_printing" => KeepRunning = {}

\* C28, amended: at most one printing thread goes on running once every call
\* has returned, and none when the call that returned last is a stop_printing
\* that no other call overlapped.
C28_NoPrinterAfterLoneStop ==
    AllReturned =>
       /\ Cardinality(KeepRunning) <= 1
       /\ (last_returned.call = "stop_printing" /\ last_returned.alone) =>
             KeepRunning = {}

\* C28 witness: two calls of start_printing overlapped, each spawning a
\* thread; a stop_printing that ran alone then returned last.
C28_Witness ==
    /\ AllReturned
    /\ last_returned = [call |-> "stop_printing", alone |-> TRUE]
    /\ stopped # {}
    /\ \E t \in Threads \ stopped : threads[t].state = "exited"

(***************************************************************************)
(* serve: the handlers of get_app run at the same time, each on its own     *)
(* task, over the one Arc<World>.                                          *)
(***************************************************************************)
\* read_and_compress and compress as one function of the records read.
compress(addrs) ==
    LET streets_of == {addrs[k].street : k \in DOMAIN addrs}
        numbers_of == {addrs[k].housenumber :
                          k \in {j \in DOMAIN addrs :
                                    ~num_compressable(addrs[j].housenumber)}}
        sv == CHOOSE o \in Orderings(streets_of) : TRUE
        hv == CHOOSE o \in Orderings(numbers_of) : TRUE
    IN Unwrap(World_sort(InsertAll(
           World_new(SortedVec_from(sv), SortedVec_from(hv)), addrs)))

Record(co, ci, po, st, hn) ==
    Unwrap(iter_items(Line(Some(co), Some(ci), Some(po), Some(st), Some(hn))))

\* The Worlds the server is started with.
LoadedWorlds ==
    { compress(<< Record(s_DE, s_Berlin, s_10115, s_Bach, s_1),
                  Record(s_DE, s_Berlin, s_10115, s_Bach, s_12a),
                  Record(s_DE, s_Berlin, s_10115, s_Abbey, s_10) >>),
      compress(<< Record(s_DE, s_Berlin, s_10115, s_Bach, s_1),
                  Record(s_DE, s_berlin, s_10115, s_bach, s_65536),
                  Record(s_AT, s_Bonn, s_10115, s_Abbey, s_plus5) >>) }

\* The requests that arrive while others are being handled.
Requests ==
    { Query("/cities", s_de, s_empty, s_empty, s_empty, None, None),
      Query("/cities", s_XX, s_empty, s_empty, s_empty, Some(s_B), None),
      Query("/zips", s_de, s_BERLIN, s_empty, s_empty, Some(s_1), None),
      Query("/streets", s_de, s_BERLIN, s_10115, s_empty, None,
            Some([ok |-> TRUE, v |-> s_1])),
      Query("/housenumbers", s_de, s_BERLIN, s_10115, s_BACH, Some(s_1), None),
      Query("/housenumbers", s_de, s_BERLIN, s_10115, s_Nope, None, None) }

\* The scrutinee of a handler's match: the chain of lookups from the World
\* down to the container the endpoint lists; panic when get_street panics.
handler_lookup(w, q) ==
    CASE q.endpoint = "/cities" ->
            [panic |-> FALSE, found |-> get_country(w, q.country_code)]
      [] q.endpoint = "/zips" ->
            [panic |-> FALSE, found |-> lookup_city(w, q)]
      [] q.endpoint = "/streets" ->
            [panic |-> FALSE, found |-> lookup_postal_area(w, q)]
      [] q.endpoint = "/housenumbers" ->
            LET pa == lookup_postal_area(w, q)
            IN IF ~IsSome(pa) THEN [panic |-> FALSE, found |-> None]
               ELSE IF get_street_panics(Unwrap(pa), q.street, w)
               THEN [panic |-> TRUE, found |-> None]
               ELSE [panic |-> FALSE, found |-> get_street(Unwrap(pa), q.street, w)]

\* Mutant: the entries are collected without .take(m).
handler_answer_untaken(w, q, found) ==
    LET prefix == prefix_or_empty(q.prefix)
    IN CASE q.endpoint = "/cities" ->
               IF found = None THEN NotFound("Country {} not found", q.country_code)
               ELSE Collected(iter_cities_prefixed(Unwrap(found), prefix, USIZE_MAX))
         [] q.endpoint = "/zips" ->
               IF found = None THEN NotFound("Country/city not found", <<>>)
               ELSE Collected(iter_zips_prefixed(Unwrap(found), prefix, USIZE_MAX))
         [] q.endpoint = "/streets" ->
               IF found = None THEN NotFound("Country/city/zip not found", <<>>)
               ELSE Collected(iter_streets_prefixed(Unwrap(found), prefix, w, USIZE_MAX))
         [] q.endpoint = "/housenumbers" ->
               IF found = None
               THEN NotFound("Country/city/zip/street not found", <<>>)
               ELSE Collected(iter_housenumbers_prefixed(Unwrap(found), prefix, w,
                                                         USIZE_MAX))

\* The arms of a handler's match: the 404 for None, else the entries of the
\* container found, filtered by the prefix, the first m collected.
handler_answer(w, q, found) ==
    LET m == MaxItems_from_request(q.max_items)
        prefix == prefix_or_empty(q.prefix)
    IN CASE q.endpoint = "/cities" ->
               IF found = None THEN NotFound("Country {} not found", q.country_code)
               ELSE Collected(iter_cities_prefixed(Unwrap(found), prefix, m))
         [] q.endpoint = "/zips" ->
               IF found = None THEN NotFound("Country/city not found", <<>>)
               ELSE Collected(iter_zips_prefixed(Unwrap(found), prefix, m))
         [] q.endpoint = "/streets" ->
               IF found = None THEN NotFound("Country/city/zip not found", <<>>)
               ELSE Collected(iter_streets_prefixed(Unwrap(found), prefix, w, m))
         [] q.endpoint = "/housenumbers" ->
               IF found = None
               THEN NotFound("Country/city/zip/street not found", <<>>)
               ELSE Collected(iter_housenumbers_prefixed(Unwrap(found), prefix, w, m))

\* serve: get_app(world) is being served; no request has arrived yet.
InitServe ==
    /\ pc = "serving" /\ addresses = <<>> /\ streets = {}
    /\ uncompressable_house_numbers = {}
    /\ world \in LoadedWorlds
    /\ compress_i = 0 /\ fed = {}
    /\ request = NoRequest /\ response = NoResponse /\ text = None
    /\ ExtractOff /\ AutofixOff /\ exit_status = None
    /\ ReaderOff /\ PrinterOff
    /\ tasks = [h \in Handlers |-> NoTask]

ServeRest ==
    UNCHANGED <<compress_vars, extract_vars, autofix_vars, exit_status, reader_vars,
                printer_vars>>

\* A request is routed to a handler and its extractors have run.
Receive(h) ==
    /\ pc = "serving" /\ tasks[h].pc = "idle"
    /\ \E q \in Requests :
          tasks' = [tasks EXCEPT ![h] = [NoTask EXCEPT !.pc = "received",
                                                       !.request = q]]
    /\ ServeRest

\* The handler evaluates the scrutinee of its match.
Lookup(h) ==
    /\ tasks[h].pc = "received"
    /\ LET r == handler_lookup(world, tasks[h].request)
       IN tasks' = [tasks EXCEPT ![h].pc = "found", ![h].panic = r.panic,
                                 ![h].found = r.found]
    /\ ServeRest

\* The handler evaluates the arm and returns; a panic ends the task.
Answer(h) ==
    /\ tasks[h].pc = "found"
    /\ tasks' = [tasks EXCEPT
                    ![h].pc = "answered",
                    ![h].response =
                        IF tasks[h].panic THEN Panicked
                        ELSE handler_answer(world, tasks[h].request, tasks[h].found)]
    /\ ServeRest

\* The response is sent and the task ends.
Respond(h) ==
    /\ tasks[h].pc = "answered"
    /\ tasks' = [tasks EXCEPT ![h] = NoTask]
    /\ ServeRest

NextServe ==
    \/ \E h \in Handlers : Receive(h)
    \/ \E h \in Handlers : Lookup(h)
    \/ \E h \in Handlers : Answer(h)
    \/ \E h \in Handlers : Respond(h)

SpecServe == InitServe /\ [][NextServe]_vars

\* C22: no step of a handler changes the World, and whatever other requests
\* are being handled at the same time, the response a handler returns is the
\* one the same request gets from the same World when it runs alone.
C22_HandlersLeaveWorld ==
    [][/\ world' = world
       /\ \A h \in Handlers :
             tasks'[h].pc = "answered" =>
                tasks'[h].response = route(world', tasks'[h].request)]_vars

\* C22 witness: a handler has answered with entries while another handler is
\* between its lookup and its answer.
C22_Witness ==
    \E h, g \in Handlers :
       /\ tasks[h].pc = "answered" /\ tasks[h].response.status = 200
       /\ tasks[h].response.body # <<>>
       /\ tasks[g].pc = "found" /\ tasks[g].found # None

=============================================================================
